---- MODULE Spec2Model ----
(***************************************************************************)
(* Verification model of the reward / achievement / economy core of        *)
(* Cyber_Landa: the reentrant transactions of DatabaseManager, the ledger  *)
(* (User / UserManager), ShopManager::purchaseItem, the task completion    *)
(* path of TaskManager and the condition engine of AchievementManager.     *)
(*                                                                         *)
(* Every handler is one action.  A handler is a sequential C++ function,   *)
(* so it is written as a pure operator on a "machine" record m that is     *)
(* threaded through its statements: m.db is the DatabaseManager, m.user    *)
(* the session (std::optional<User>, a sequence of length 0 or 1), m.tasks *)
(* and m.achs the caches, m.exc the "an exception is propagating" flag.    *)
(* Persistence calls are counted in m.n; the call numbered m.failAt fails  *)
(* with a storage error (0: none does), and m.rbFail makes the ROLLBACK    *)
(* statement fail.                                                         *)
(***************************************************************************)
EXTENDS Integers, Sequences, FiniteSets, TLC

VARIABLES
    db,               \* DatabaseManager: depth, lock, SQLite connection, rows
    activeUser,       \* UserManager::m_activeUser (<<>> or <<User>>)
    tasks,            \* TaskManager::m_tasks
    completionStats,  \* TaskManager::m_completionStats
    achievements,     \* AchievementManager::m_achievements
    hung,             \* the single thread is blocked for ever on a mutex
    effects,          \* InventoryManager::m_effects, the bucket of the user
    now,              \* the clock (QDateTime::currentDateTimeUtc), in minutes
    last              \* what the last handler call did (observation only)

vars ==
    <<db, activeUser, tasks, completionStats, achievements, hung, effects,
      now, last>>

-----------------------------------------------------------------------------
(* Bounds of the model *)

MaxDepth == 3        \* nesting of raw beginTransaction calls explored
MaxWriteValue == 2   \* values written by the raw write of the transaction spec

Min(a, b) == IF a < b THEN a ELSE b
Max(a, b) == IF a > b THEN a ELSE b
Clamp(v, lo, hi) == IF v < lo THEN lo ELSE IF v > hi THEN hi ELSE v

-----------------------------------------------------------------------------
(* Ledger rows and objects *)

ZeroAttributes ==
    [execution |-> 0, perseverance |-> 0, decision |-> 0,
     knowledge |-> 0, social |-> 0, pride |-> 0]

ZeroProgress ==
    [achievementsUnlocked |-> 0, totalTasksCompleted |-> 0,
     academicTasksCompleted |-> 0, socialTasksCompleted |-> 0,
     personalTasksCompleted |-> 0, attributePointsSpent |-> 0]

\* The attributes column: the key=value pairs written by serializeAttributes.
\* A key absent from the text reads as 0, so the seed text of the preset
\* account is the all-zero blob.
ZeroBlob ==
    [growth |-> 0, execution |-> 0, perseverance |-> 0, decision |-> 0,
     knowledge |-> 0, social |-> 0, pride |-> 0, achievements |-> 0,
     tasks_total |-> 0, tasks_academic |-> 0, tasks_social |-> 0,
     tasks_personal |-> 0, attribute_spent |-> 0]

\* The users row of the preset account, holding currency coins.
UserRow(coins) == [level |-> 1, currency |-> coins, attributes |-> ZeroBlob]

\* The tables of the store.
Tables(userRow, taskRows, achRows, invRows, itemRows) ==
    [user |-> userRow, tasks |-> taskRows, achs |-> achRows,
     inv |-> invRows, items |-> itemRows]

\* DatabaseManager after initialize(): no transaction, lock not owned.
\* cur is what statements read and write, saved is what is durable.
OpenDatabase(tables) ==
    [depth |-> 0, locked |-> FALSE, physOpen |-> FALSE,
     cur |-> tables, saved |-> tables]

-----------------------------------------------------------------------------
(* The machine record threaded through a handler *)

Machine(failAt, rbFail) ==
    [db |-> db, user |-> activeUser, tasks |-> tasks,
     stats |-> completionStats, achs |-> achievements,
     n |-> 0, failAt |-> failAt, rbFail |-> rbFail,
     exc |-> FALSE, ret |-> FALSE, stmts |-> <<>>,
     order |-> "ascending", relock |-> "proceed", blocked |-> FALSE,
     grants |-> <<>>, utcMonth |-> 1, localMonth |-> 1,
     effects |-> effects, now |-> now, signals |-> <<>>]

\* emit m_signalProxy->signal(...): the signal is on record before its slots
\* run.
Emit(m, signal) == [m EXCEPT !.signals = Append(@, signal)]

Throw(m) == [m EXCEPT !.exc = TRUE]

\* The thread stops for ever inside a lock() that never returns.
Block(m) == [m EXCEPT !.exc = TRUE, !.blocked = TRUE]

\* A catch block: run handler h on the state the exception left, swallow
\* whatever h throws, and keep the original exception propagating.
Rethrow(m) == [m EXCEPT !.exc = TRUE]

\* Sequencing.  Bind(v, F) is F applied to the value of v, computed once;
\* Then(s, F) is the statement F run on the state s leaves, skipped while an
\* exception propagates; Catch(s, H) runs the handler H when one does.  A
\* thread blocked for ever (blocked) runs no further statement and no handler.
Bind(v, F(_)) == CHOOSE r \in {F(s) : s \in {v}} : TRUE

Then(s, F(_)) == Bind(s, LAMBDA v : IF v.exc THEN v ELSE F(v))

Catch(s, H(_)) == Bind(s, LAMBDA v : IF v.exc /\ ~v.blocked THEN H(v) ELSE v)

-----------------------------------------------------------------------------
(* DatabaseManager: statements *)

\* executeNonQuery(sql) for the three transaction statements.  SQLite
\* refuses BEGIN inside a transaction and COMMIT / ROLLBACK outside one; a
\* statement that fails changes nothing and executeNonQuery throws.
executeNonQuery(m, sql) ==
    LET k == m.n + 1
        injected == IF sql = "ROLLBACK" THEN m.rbFail ELSE k = m.failAt
        legal == IF sql = "BEGIN" THEN ~m.db.physOpen ELSE m.db.physOpen
        ok == legal /\ ~injected
        logged == [m EXCEPT !.n = k, !.stmts = Append(@, <<sql, ok>>)]
    IN  IF ~ok THEN Throw(logged)
        ELSE IF sql = "BEGIN" THEN [logged EXCEPT !.db.physOpen = TRUE]
        ELSE IF sql = "COMMIT"
             THEN [logged EXCEPT !.db.physOpen = FALSE,
                                 !.db.saved = logged.db.cur]
        ELSE [logged EXCEPT !.db.physOpen = FALSE,
                            !.db.cur = logged.db.saved]

\* A writing statement (sqlite3_step of an INSERT / UPDATE / DELETE) that
\* leaves the tables as newCur; outside a transaction SQLite autocommits.
WriteStep(m, newCur) ==
    LET k == m.n + 1
    IN  IF k = m.failAt THEN Throw([m EXCEPT !.n = k])
        ELSE [m EXCEPT !.n = k, !.db.cur = newCur,
                       !.db.saved = IF m.db.physOpen THEN @ ELSE newCur]

\* A reading statement: it changes nothing and may fail.
ReadStep(m) ==
    LET k == m.n + 1
    IN  IF k = m.failAt THEN Throw([m EXCEPT !.n = k]) ELSE [m EXCEPT !.n = k]

-----------------------------------------------------------------------------
(* DatabaseManager: reentrant transactions *)

beginTransaction(m) ==
    IF ~m.db.locked
    THEN Then(executeNonQuery([m EXCEPT !.db.locked = TRUE], "BEGIN"),
              LAMBDA s : [s EXCEPT !.db.depth = 1, !.ret = TRUE])
    ELSE [m EXCEPT !.db.depth = @ + 1, !.ret = FALSE]

\* A commit that is not depth-aware: it issues COMMIT at every depth.
commitTransaction_flat(m) ==
    IF ~m.db.locked THEN Throw(m)
    ELSE IF m.db.depth = 0 THEN Throw(m)
    ELSE Then(executeNonQuery(m, "COMMIT"),
              LAMBDA s : [s EXCEPT !.db.depth = 0, !.db.locked = FALSE])

commitTransaction(m) ==
    IF ~m.db.locked THEN Throw(m)
    ELSE IF m.db.depth = 0 THEN Throw(m)
    ELSE IF m.db.depth = 1
    THEN Then(executeNonQuery(m, "COMMIT"),
              LAMBDA s : [s EXCEPT !.db.depth = 0, !.db.locked = FALSE])
    ELSE [m EXCEPT !.db.depth = @ - 1]

rollbackTransaction(m) ==
    IF ~m.db.locked THEN m
    ELSE Then(executeNonQuery(m, "ROLLBACK"),
              LAMBDA s : [s EXCEPT !.db.depth = 0, !.db.locked = FALSE])

\* catch (...) { if (transactionStarted) { try { rollback } catch (...) {} } throw; }
CatchRollback(m, transactionStarted) ==
    IF transactionStarted
    THEN Rethrow(rollbackTransaction([m EXCEPT !.exc = FALSE]))
    ELSE m

(* DatabaseManager: rows *)

updateUserLevel(m, newLevel) ==
    WriteStep(m, [m.db.cur EXCEPT !.user.level = newLevel])

updateUserCurrency(m, newCurrency) ==
    WriteStep(m, [m.db.cur EXCEPT !.user.currency = newCurrency])

updateUserAttributes(m, attributes) ==
    WriteStep(m, [m.db.cur EXCEPT !.user.attributes = attributes])

\* The row of the preset account as the connection sees it.
getUserByName(m) == m.db.cur.user

\* std::optional<ShopItemRecord>: <<>> when no row has this id.
getShopItemById(m, itemId) ==
    IF itemId \in 1..Len(m.db.cur.items)
    THEN << [m.db.cur.items[itemId] EXCEPT !.id = itemId] >>
    ELSE <<>>

insertInventoryRecord(m, record) ==
    WriteStep(m, [m.db.cur EXCEPT !.inv = Append(@, record)])

RECURSIVE SumQuantity(_, _)
SumQuantity(rows, itemId) ==
    IF rows = <<>> THEN 0
    ELSE (IF Head(rows).itemId = itemId THEN Head(rows).quantity ELSE 0)
         + SumQuantity(Tail(rows), itemId)

\* SELECT SUM(quantity) FROM user_inventory WHERE owner = ? AND item_id = ?
countInventoryByUserAndItem(m, itemId) == SumQuantity(m.db.cur.inv, itemId)

-----------------------------------------------------------------------------
(* User *)

kAttributeMin == 0
kAttributeMax == 999

\* No clamp at all.
clampAttributeValue_none(value) == value

clampAttributeValue(value) == Clamp(value, kAttributeMin, kAttributeMax)

clampAttributes(attributes) ==
    [k \in DOMAIN attributes |-> clampAttributeValue(attributes[k])]

\* 1 + static_cast<int>(sqrt(growth / 100.0))
computeLevelFromGrowth(growthPoints) ==
    IF growthPoints <= 0 THEN 1
    ELSE LET root == CHOOSE k \in 0..growthPoints :
                        /\ k * k * 100 <= growthPoints
                        /\ (k + 1) * (k + 1) * 100 > growthPoints
         IN  Max(1, 1 + root)

\* User::User(...): the constructor clamps the attributes only.
User(level, growthPoints, coins, attributes, progress) ==
    [level |-> level, growthPoints |-> growthPoints, coins |-> coins,
     attributes |-> clampAttributes(attributes), progress |-> progress]

addGrowthPoints(user, delta) ==
    IF delta <= 0 THEN user
    ELSE [user EXCEPT !.growthPoints = @ + delta,
                      !.level = computeLevelFromGrowth(user.growthPoints + delta)]

addCoins(user, amount) ==
    IF amount <= 0 THEN user ELSE [user EXCEPT !.coins = @ + amount]

\* A spendCoins without the balance check.
spendCoins_unchecked(m, amount) ==
    IF amount <= 0 THEN m
    ELSE [m EXCEPT !.user[1].coins = @ - amount]

\* On the machine, because it throws when the balance is too low.
spendCoins(m, amount) ==
    IF amount <= 0 THEN m
    ELSE IF amount > m.user[1].coins THEN Throw(m)
    ELSE [m EXCEPT !.user[1].coins = @ - amount]

applyAttributeBonus(user, bonus) ==
    [user EXCEPT !.attributes =
        clampAttributes([k \in DOMAIN @ |-> @[k] + bonus[k]])]

recordTaskCompletion(user, category) ==
    [user EXCEPT
        !.progress.totalTasksCompleted = @ + 1,
        !.progress.academicTasksCompleted =
            IF category = "Academic" THEN @ + 1 ELSE @,
        !.progress.socialTasksCompleted =
            IF category = "Social" THEN @ + 1 ELSE @,
        !.progress.personalTasksCompleted =
            IF category = "Personal" THEN @ + 1 ELSE @]

recordAchievementUnlock(user) ==
    [user EXCEPT !.progress.achievementsUnlocked = @ + 1]

\* m_level = std::max(1, level): the growth points are not consulted.
setLevel(user, level) == [user EXCEPT !.level = Max(1, level)]

setGrowthPoints(user, points) ==
    [user EXCEPT !.growthPoints = Max(0, points),
                 !.level = computeLevelFromGrowth(Max(0, points))]

totalPoints(attributes) ==
    attributes.execution + attributes.perseverance + attributes.decision
        + attributes.knowledge + attributes.social + attributes.pride

computeAvailableAttributePoints(user) ==
    Max(0, user.growthPoints \div 50 - user.progress.attributePointsSpent)

\* On the machine, because it throws when the plan exceeds the budget.
distributeAttributes(m, distribution) ==
    IF totalPoints(distribution) > computeAvailableAttributePoints(m.user[1])
    THEN Throw(m)
    ELSE [m EXCEPT !.user[1] =
            [applyAttributeBonus(@, distribution) EXCEPT
                !.progress.attributePointsSpent =
                    @ + totalPoints(distribution)]]

-----------------------------------------------------------------------------
(* UserManager *)

serializeAttributes(user) ==
    [growth |-> user.growthPoints,
     execution |-> user.attributes.execution,
     perseverance |-> user.attributes.perseverance,
     decision |-> user.attributes.decision,
     knowledge |-> user.attributes.knowledge,
     social |-> user.attributes.social,
     pride |-> user.attributes.pride,
     achievements |-> user.progress.achievementsUnlocked,
     tasks_total |-> user.progress.totalTasksCompleted,
     tasks_academic |-> user.progress.academicTasksCompleted,
     tasks_social |-> user.progress.socialTasksCompleted,
     tasks_personal |-> user.progress.personalTasksCompleted,
     attribute_spent |-> user.progress.attributePointsSpent]

hydrateUser(record) ==
    LET blob == record.attributes
    IN  User(record.level, blob.growth, record.currency,
             [execution |-> blob.execution, perseverance |-> blob.perseverance,
              decision |-> blob.decision, knowledge |-> blob.knowledge,
              social |-> blob.social, pride |-> blob.pride],
             [achievementsUnlocked |-> blob.achievements,
              totalTasksCompleted |-> blob.tasks_total,
              academicTasksCompleted |-> blob.tasks_academic,
              socialTasksCompleted |-> blob.tasks_social,
              personalTasksCompleted |-> blob.tasks_personal,
              attributePointsSpent |-> blob.attribute_spent])

\* login with the credentials of the preset account.
login(m) ==
    Then(ReadStep(m),
         LAMBDA s : [s EXCEPT !.user = << hydrateUser(getUserByName(s)) >>,
                              !.ret = TRUE])

logout(m) == [m EXCEPT !.user = <<>>]

persistUser(m) ==
    Bind(beginTransaction(m), LAMBDA s0 :
        Catch(Then(Then(Then(Then(s0,
                LAMBDA s : updateUserLevel(s, s.user[1].level)),
                LAMBDA s : updateUserCurrency(s, s.user[1].coins)),
                LAMBDA s : updateUserAttributes(s, serializeAttributes(s.user[1]))),
                commitTransaction),
              LAMBDA s : CatchRollback(s, ~s0.exc /\ s0.ret)))

saveActiveUser(m) == IF m.user = <<>> THEN Throw(m) ELSE persistUser(m)

\* UserManager::unlockAchievement
unlockAchievement(m) ==
    IF m.user = <<>> THEN Throw(m)
    ELSE persistUser([m EXCEPT !.user[1] = recordAchievementUnlock(@)])

-----------------------------------------------------------------------------
(* InventoryManager and ShopManager *)

kThreeStarRewardBaseline == 60

\* A shop_items row of a prop (id is set when the row is read).  The
\* probability of a lucky reward is kept in percent.
PropItem(propEffectType, purchaseLimit, available, levelRequirement) ==
    [id |-> 0, itemType |-> "Prop", propEffectType |-> propEffectType,
     priceCoins |-> 0, effectDurationMinutes |-> 30,
     purchaseLimit |-> purchaseLimit, available |-> available,
     levelRequirement |-> levelRequirement, luckyRewards |-> <<>>]

\* InventoryManager::createFromShopItem: one user_inventory row.
\* The entry of a Prop with a positive duration expires that many minutes
\* after the purchase; any other entry has no expiration time (<<>>).
NewEntry(item, quantity, instant) ==
    [itemId |-> item.id, quantity |-> quantity, usedQuantity |-> 0,
     status |-> "Unused",
     expirationTime |->
        IF item.itemType = "Prop" /\ item.effectDurationMinutes > 0
        THEN << instant + item.effectDurationMinutes >>
        ELSE <<>>]

createFromShopItem(m, item, quantity) ==
    insertInventoryRecord(m, NewEntry(item, quantity, m.now))

countPurchasesForItem(m, itemId) == countInventoryByUserAndItem(m, itemId)

RECURSIVE ExpectedPercent(_)
\* 100 times the expected value of the rewards of a lucky bag.
ExpectedPercent(rewards) ==
    IF rewards = <<>> THEN 0
    ELSE LET reward == Head(rewards)
         IN  (IF reward.type = "ShopItem"
              THEN kThreeStarRewardBaseline * reward.probability
              ELSE reward.amount * reward.probability)
             + ExpectedPercent(Tail(rewards))

applyPricingStrategy(item) ==
    LET base == IF item.priceCoins <= 0 THEN kThreeStarRewardBaseline
                ELSE item.priceCoins
    IN  IF item.itemType = "Physical"
        THEN [item EXCEPT !.priceCoins =
                Max(kThreeStarRewardBaseline * 5,
                    Min(base, kThreeStarRewardBaseline * 10))]
        ELSE IF item.itemType = "Prop"
        THEN LET duration == Max(item.effectDurationMinutes, 30)
                 unitCount == (duration + 29) \div 30
                 \* weight 1.5 for the double experience card, else 1.0
                 price == IF item.propEffectType = "DoubleExpCard"
                          THEN (kThreeStarRewardBaseline * 3 * unitCount) \div 2
                          ELSE kThreeStarRewardBaseline * unitCount
             IN  [item EXCEPT !.priceCoins =
                    Max(price, kThreeStarRewardBaseline \div 2)]
        ELSE LET expected == IF item.luckyRewards = <<>>
                             THEN kThreeStarRewardBaseline * 100
                             ELSE ExpectedPercent(item.luckyRewards)
             IN  [item EXCEPT !.priceCoins =
                    Max((expected * 12) \div 1000, kThreeStarRewardBaseline)]

\* validatePurchase with the funds check left out.
validatePurchase_nofunds(m, item, quantity) ==
    IF quantity <= 0 THEN [m |-> m, reason |-> "Quantity"]
    ELSE IF ~item.available THEN [m |-> m, reason |-> "Unavailable"]
    ELSE IF m.user[1].level < item.levelRequirement
    THEN [m |-> m, reason |-> "Level"]
    ELSE IF item.purchaseLimit > 0
    THEN Bind(ReadStep(m), LAMBDA read :
            IF ~read.exc /\ countPurchasesForItem(read, item.id) + quantity
                                > item.purchaseLimit
            THEN [m |-> read, reason |-> "Limit"]
            ELSE [m |-> read, reason |-> ""])
    ELSE [m |-> m, reason |-> ""]

\* validatePurchase with the purchase limit left out.
validatePurchase_nolimit(m, item, quantity) ==
    IF quantity <= 0 THEN [m |-> m, reason |-> "Quantity"]
    ELSE IF ~item.available THEN [m |-> m, reason |-> "Unavailable"]
    ELSE IF m.user[1].level < item.levelRequirement
    THEN [m |-> m, reason |-> "Level"]
    ELSE IF m.user[1].coins < item.priceCoins * quantity
    THEN [m |-> m, reason |-> "Funds"]
    ELSE [m |-> m, reason |-> ""]

\* The reason is "" when the purchase is valid; m.exc is set when counting
\* the owned items failed.
validatePurchase(m, item, quantity) ==
    IF quantity <= 0 THEN [m |-> m, reason |-> "Quantity"]
    ELSE IF ~item.available THEN [m |-> m, reason |-> "Unavailable"]
    ELSE IF m.user[1].level < item.levelRequirement
    THEN [m |-> m, reason |-> "Level"]
    ELSE IF m.user[1].coins < item.priceCoins * quantity
    THEN [m |-> m, reason |-> "Funds"]
    ELSE IF item.purchaseLimit > 0
    THEN Bind(ReadStep(m), LAMBDA read :
            IF ~read.exc /\ countPurchasesForItem(read, item.id) + quantity
                                > item.purchaseLimit
            THEN [m |-> read, reason |-> "Limit"]
            ELSE [m |-> read, reason |-> ""])
    ELSE [m |-> m, reason |-> ""]

RECURSIVE CreateEntries(_, _, _)
\* for (i = 0; i < quantity; ++i) createFromShopItem(item, owner, 1)
CreateEntries(m, item, remaining) ==
    IF remaining <= 0 THEN m
    ELSE Then(createFromShopItem(m, item, 1),
              LAMBDA s : CreateEntries(s, item, remaining - 1))

\* The try block of purchaseItem and its catch.
PurchaseTransaction(m, item, quantity) ==
    Bind(beginTransaction(m), LAMBDA s0 :
        Catch(Then(Then(Then(Then(s0,
                LAMBDA s : spendCoins(s, item.priceCoins * quantity)),
                saveActiveUser),
                LAMBDA s : CreateEntries(s, item, quantity)),
                commitTransaction),
              LAMBDA s : CatchRollback(s, ~s0.exc /\ s0.ret)))

\* purchaseItem(itemId, quantity).  findItem locks the std::mutex that
\* purchaseItem already holds, which is undefined behaviour: relock is what
\* the build makes of it ("proceed", "throw" or "block").
\* outcome: "invalid" (a failure result with its reason), "success",
\* "throw" (reason "Lookup" before the try block, "Transaction" from it)
\* or "blocked".
purchaseItem(m, itemId, quantity, relock) ==
    IF m.user = <<>>
    THEN [m |-> m, outcome |-> "invalid", reason |-> "NoSession"]
    ELSE IF relock = "block"
    THEN [m |-> m, outcome |-> "blocked", reason |-> ""]
    ELSE IF relock = "throw"
    THEN [m |-> Throw(m), outcome |-> "throw", reason |-> "Lookup"]
    ELSE Bind(ReadStep(m), LAMBDA found :
        IF found.exc
        THEN [m |-> found, outcome |-> "throw", reason |-> "Lookup"]
        ELSE IF getShopItemById(found, itemId) = <<>>
        THEN [m |-> found, outcome |-> "invalid", reason |-> "NoItem"]
        ELSE Bind(applyPricingStrategy(getShopItemById(found, itemId)[1]),
          LAMBDA item :
            Bind(validatePurchase(found, item, quantity), LAMBDA valid :
              IF valid.m.exc
              THEN [m |-> valid.m, outcome |-> "throw", reason |-> "Lookup"]
              ELSE IF valid.reason # ""
              THEN [m |-> valid.m, outcome |-> "invalid",
                    reason |-> valid.reason]
              ELSE Bind(PurchaseTransaction(valid.m, item, quantity),
                LAMBDA done :
                  IF done.exc
                  THEN [m |-> done, outcome |-> "throw",
                        reason |-> "Transaction"]
                  ELSE [m |-> done, outcome |-> "success",
                        reason |-> ""]))))

-----------------------------------------------------------------------------
(* Achievement and the achievements table *)

\* Achievement::Condition::ConditionType, in declaration order.
ConditionTypes ==
    << "CompleteAnyTask", "CompleteTaskType", "ReachLevel", "ReachPride",
       "ReachCoins", "CustomCounter" >>

Condition(type, targetValue, currentValue, metadata) ==
    [type |-> type, targetValue |-> targetValue,
     currentValue |-> currentValue, metadata |-> metadata]

\* Achievement::Achievement(): the default-constructed object. createdAt is
\* the calendar month of its UTC timestamp, month 1 being the month the
\* session starts in.
Achievement ==
    [id |-> -1, name |-> "", type |-> "System", rewardType |-> "NoReward",
     conditions |-> <<>>, progressValue |-> 0, progressGoal |-> 1,
     rewardCoins |-> 0, rewardAttributes |-> ZeroAttributes,
     unlocked |-> FALSE, createdAt |-> 1]

\* "type,target,current,metadata" segments: the type is written as its
\* ordinal.
serializeConditions(conditions) ==
    [i \in 1..Len(conditions) |->
        << (CHOOSE k \in 1..Len(ConditionTypes) :
                ConditionTypes[k] = conditions[i].type) - 1,
           conditions[i].targetValue, conditions[i].currentValue,
           conditions[i].metadata >>]

\* Segments are read back with target max(1, .) and current max(0, .); an
\* empty list becomes the single default condition with target 1.
deserializeConditions(blob) ==
    IF blob = <<>> THEN << Condition("CompleteAnyTask", 1, 0, "") >>
    ELSE [i \in 1..Len(blob) |->
            Condition(ConditionTypes[blob[i][1] + 1], Max(1, blob[i][2]),
                      Max(0, blob[i][3]), blob[i][4])]

toRecord(achievement) ==
    [id |-> achievement.id, name |-> achievement.name,
     type |-> achievement.type, rewardType |-> achievement.rewardType,
     progressValue |-> achievement.progressValue,
     progressGoal |-> achievement.progressGoal,
     rewardCoins |-> achievement.rewardCoins,
     rewardAttributes |-> achievement.rewardAttributes,
     unlocked |-> achievement.unlocked,
     conditions |-> serializeConditions(achievement.conditions),
     createdAt |-> achievement.createdAt]

hydrateAchievement(record) ==
    [id |-> record.id, name |-> record.name, type |-> record.type,
     rewardType |-> record.rewardType,
     conditions |-> deserializeConditions(record.conditions),
     progressValue |-> record.progressValue,
     progressGoal |-> record.progressGoal,
     rewardCoins |-> record.rewardCoins,
     rewardAttributes |-> record.rewardAttributes,
     unlocked |-> record.unlocked, createdAt |-> record.createdAt]

\* INSERT INTO achievements: the new row gets the next id.
createAchievement(m, record) ==
    WriteStep(m, [m.db.cur EXCEPT !.achs =
        Append(@, [record EXCEPT !.id = Len(m.db.cur.achs) + 1])])

\* The ids of the table are never given twice (AUTOINCREMENT): the place of
\* a deleted row stays in the sequence, marked as deleted.
DeletedRow == [toRecord(Achievement) EXCEPT !.type = "Deleted"]

RowIds(m) ==
    {i \in 1..Len(m.db.cur.achs) : m.db.cur.achs[i].type # "Deleted"}

\* UPDATE achievements ... WHERE id = ?: no row, no change.
updateAchievement(m, record) ==
    WriteStep(m, IF record.id \in RowIds(m)
                 THEN [m.db.cur EXCEPT !.achs[record.id] = record]
                 ELSE m.db.cur)

\* DELETE FROM achievements WHERE id = ?: no row, no change.
deleteAchievement(m, achievementId) ==
    WriteStep(m, IF achievementId \in RowIds(m)
                 THEN [m.db.cur EXCEPT !.achs[achievementId] = DeletedRow]
                 ELSE m.db.cur)

\* SELECT COUNT(1) ... WHERE type = 'Custom' AND reward_type = 'WithReward'
\* AND strftime('%Y-%m', created_at) = ?: the month of the stored UTC
\* timestamp is compared with the token.
countCustomRewardAchievements(m, monthToken) ==
    Cardinality({i \in 1..Len(m.db.cur.achs) :
        /\ m.db.cur.achs[i].type = "Custom"
        /\ m.db.cur.achs[i].rewardType = "WithReward"
        /\ m.db.cur.achs[i].createdAt = monthToken})

\* The token is the month of QDate::currentDate(), the local date.
countRewardAchievementsThisMonth(m) ==
    countCustomRewardAchievements(m, m.localMonth)

RECURSIVE SumTargets(_)
SumTargets(conditions) ==
    IF conditions = <<>> THEN 0
    ELSE Head(conditions).targetValue + SumTargets(Tail(conditions))

RECURSIVE SumProgress(_)
SumProgress(conditions) ==
    IF conditions = <<>> THEN 0
    ELSE Min(Head(conditions).targetValue, Head(conditions).currentValue)
         + SumProgress(Tail(conditions))

\* recalculateProgress: the achievement with goal and value recomputed (the
\* code returns whether the value changed).
recalculateProgress(achievement) ==
    [achievement EXCEPT
        !.progressGoal = Max(1, SumTargets(achievement.conditions)),
        !.progressValue = Min(Max(1, SumTargets(achievement.conditions)),
                              SumProgress(achievement.conditions))]

\* Whether a condition is one the update is meant for.
ConditionMatches(condition, type, metadata) ==
    /\ condition.type = type
    /\ ~(metadata # "" /\ condition.metadata # ""
         /\ metadata # condition.metadata)

updateConditionCache(achievement, type, delta, metadata) ==
    IF delta = 0 THEN achievement
    ELSE [achievement EXCEPT !.conditions =
            [i \in 1..Len(@) |->
                IF ConditionMatches(@[i], type, metadata)
                THEN [@[i] EXCEPT !.currentValue =
                        Clamp(@ + delta, 0, achievement.conditions[i].targetValue)]
                ELSE @[i]]]

replaceConditionValue(achievement, type, value, metadata) ==
    [achievement EXCEPT !.conditions =
        [i \in 1..Len(@) |->
            IF ConditionMatches(@[i], type, metadata)
            THEN [@[i] EXCEPT !.currentValue =
                    Clamp(value, 0, achievement.conditions[i].targetValue)]
            ELSE @[i]]]

-----------------------------------------------------------------------------
(* AchievementManager *)

\* LogManager::recordAutoLog, the slot of achievementUnlocked and
\* levelChanged: one INSERT into growth_logs, a table the model does not keep.
recordAutoLog(m) == WriteStep(m, m.db.cur)

\* The keys of the cache in the order the range-for visits them; the order
\* of an unordered_map is left to the library.
RECURSIVE IdsInOrder(_, _)
IdsInOrder(ids, order) ==
    IF ids = {} THEN <<>>
    ELSE LET first == IF order = "ascending"
                      THEN CHOOSE a \in ids : \A b \in ids : a <= b
                      ELSE CHOOSE a \in ids : \A b \in ids : a >= b
         IN  << first >> \o IdsInOrder(ids \ {first}, order)

\* m_achievements[id] = achievement
CachePut(achs, id, achievement) ==
    [i \in DOMAIN achs \cup {id} |-> IF i = id THEN achievement ELSE achs[i]]

\* What a handler does to the conditions of one achievement.
ApplyEvent(achievement, event) ==
    CASE event.signal = "levelChanged" ->
            replaceConditionValue(achievement, "ReachLevel", event.value, "")
      [] event.signal = "prideChanged" ->
            replaceConditionValue(achievement, "ReachPride", event.value, "")
      [] event.signal = "coinsChanged" ->
            replaceConditionValue(achievement, "ReachCoins", event.value, "")
      [] event.signal = "customProgress" ->
            updateConditionCache(achievement, "CustomCounter", event.value, "")
      [] event.signal = "taskCompleted" ->
            updateConditionCache(
                updateConditionCache(achievement, "CompleteAnyTask", 1, ""),
                "CompleteTaskType", 1, event.metadata)

Event(signal, value, metadata) ==
    [signal |-> signal, value |-> value, metadata |-> metadata]

\* One entry of the record of rewards granted during a call.
LogGrant(m, id, before) ==
    [m EXCEPT !.grants = Append(@,
        [id |-> id,
         coinsBefore |-> before.coins, coinsAfter |-> m.user[1].coins,
         prideBefore |-> before.attributes.pride,
         prideAfter |-> m.user[1].attributes.pride])]

RECURSIVE evaluateCompletion(_, _)
RECURSIVE grantRewards(_, _)
RECURSIVE ForEachAchievement(_, _, _)

\* The body of the handlers' loops: the cached object is changed in place,
\* saved when its progress value changed, then evaluated.
VisitAchievement(m, id, event) ==
    Bind(recalculateProgress(ApplyEvent(m.achs[id], event)), LAMBDA after :
        Then(IF after.progressValue # m.achs[id].progressValue
             THEN updateAchievement([m EXCEPT !.achs[id] = after],
                                    toRecord(after))
             ELSE [m EXCEPT !.achs[id] = after],
             LAMBDA s : evaluateCompletion(s, id)))

\* for (auto& [id, achievement] : m_achievements) { ... }
ForEachAchievement(m, ids, event) ==
    IF ids = <<>> THEN m
    ELSE Then(VisitAchievement(m, Head(ids), event),
              LAMBDA s : ForEachAchievement(s, Tail(ids), event))

handleUserLevelChangedLocked(m, newLevel) ==
    ForEachAchievement(m, IdsInOrder(DOMAIN m.achs, m.order),
                       Event("levelChanged", newLevel, ""))

handlePrideChangedLocked(m, newPride) ==
    ForEachAchievement(m, IdsInOrder(DOMAIN m.achs, m.order),
                       Event("prideChanged", newPride, ""))

handleCoinsChangedLocked(m, newCoins) ==
    ForEachAchievement(m, IdsInOrder(DOMAIN m.achs, m.order),
                       Event("coinsChanged", newCoins, ""))

\* The flag is set before the reward is granted; the row is saved and
\* achievementUnlocked emitted (the LogManager slot writes a log) after it.
evaluateCompletion(m, id) ==
    IF m.achs[id].unlocked THEN m
    ELSE IF m.achs[id].progressValue < m.achs[id].progressGoal THEN m
    ELSE Then(Then(grantRewards([m EXCEPT !.achs[id].unlocked = TRUE], id),
              LAMBDA s : updateAchievement(s, toRecord(s.achs[id]))),
              recordAutoLog)

grantRewards(m, id) ==
    IF m.user = <<>> THEN m
    ELSE IF m.achs[id].rewardType = "NoReward"
    THEN unlockAchievement(LogGrant(m, id, m.user[1]))
    ELSE Bind(m.user[1], LAMBDA before :
        Then(Then(Then(
            unlockAchievement(LogGrant(
                [m EXCEPT !.user[1] = applyAttributeBonus(
                    addCoins(@, m.achs[id].rewardCoins),
                    m.achs[id].rewardAttributes)], id, before)),
            LAMBDA s : IF before.level # s.user[1].level
                       THEN handleUserLevelChangedLocked(s, s.user[1].level)
                       ELSE s),
            LAMBDA s : IF before.attributes.pride # s.user[1].attributes.pride
                       THEN handlePrideChangedLocked(s, s.user[1].attributes.pride)
                       ELSE s),
            LAMBDA s : IF s.user[1].coins # before.coins
                       THEN handleCoinsChangedLocked(s, s.user[1].coins)
                       ELSE s))

onUserLevelChanged(m, newLevel) == handleUserLevelChangedLocked(m, newLevel)

onPrideChanged(m, newPride) == handlePrideChangedLocked(m, newPride)

onCoinsChanged(m, newCoins) == handleCoinsChangedLocked(m, newCoins)

onTaskCompleted(m, taskType) ==
    ForEachAchievement(m, IdsInOrder(DOMAIN m.achs, m.order),
                       Event("taskCompleted", 1, taskType))

recordCustomProgress(m, achievementId, delta) ==
    IF achievementId \notin DOMAIN m.achs THEN Throw(m)
    ELSE VisitAchievement(m, achievementId, Event("customProgress", delta, ""))

\* Returns (in ret) whether the draft is acceptable; throws when the two
\* rewarded custom achievements of the month are used up.
validateCustomAchievement(m, achievement) ==
    IF achievement.conditions = <<>> THEN [m EXCEPT !.ret = FALSE]
    ELSE IF \E i \in 1..Len(achievement.conditions) :
                achievement.conditions[i].targetValue <= 0
    THEN [m EXCEPT !.ret = FALSE]
    ELSE IF achievement.rewardType = "WithReward"
    THEN Then(ReadStep(m), LAMBDA s :
            IF countRewardAchievementsThisMonth(s) >= 2 THEN Throw(s)
            ELSE [s EXCEPT !.ret = TRUE])
    ELSE [m EXCEPT !.ret = TRUE]

\* The draft is stamped with QDateTime::currentDateTimeUtc() before it is
\* validated and stored.
createCustomAchievement(m, achievement) ==
    IF m.user = <<>> THEN Throw(m)
    ELSE Then(validateCustomAchievement(m, [achievement EXCEPT !.type = "Custom"]),
      LAMBDA valid :
        IF ~valid.ret THEN Throw(valid)
        ELSE Bind(recalculateProgress([achievement EXCEPT !.type = "Custom",
                                                         !.progressValue = 0,
                                                         !.createdAt = m.utcMonth]),
          LAMBDA draft :
            Bind(Len(valid.db.cur.achs) + 1, LAMBDA newId :
              Then(createAchievement(valid, toRecord(draft)), LAMBDA s :
                [s EXCEPT !.achs = CachePut(@, newId,
                                            [draft EXCEPT !.id = newId])]))))

\* An update that does not look at the type of the cached achievement.
updateCustomAchievement_anytype(m, achievement) ==
    IF achievement.id \notin DOMAIN m.achs THEN Throw(m)
    ELSE Bind(recalculateProgress(achievement), LAMBDA copy :
        Then(updateAchievement(m, toRecord(copy)), LAMBDA s :
            [s EXCEPT !.achs = CachePut(@, copy.id, copy)]))

\* The caller's object replaces the cached one and its row as it is.
updateCustomAchievement(m, achievement) ==
    IF achievement.id \notin DOMAIN m.achs THEN Throw(m)
    ELSE IF m.achs[achievement.id].type = "System" THEN Throw(m)
    ELSE Bind(recalculateProgress(achievement), LAMBDA copy :
        Then(updateAchievement(m, toRecord(copy)), LAMBDA s :
            [s EXCEPT !.achs = CachePut(@, copy.id, copy)]))

\* The cached entry is erased whether or not a row was deleted.
deleteCustomAchievement(m, achievementId) ==
    IF achievementId \notin DOMAIN m.achs THEN m
    ELSE IF m.achs[achievementId].type = "System" THEN Throw(m)
    ELSE Then(deleteAchievement(m, achievementId), LAMBDA s :
        [s EXCEPT !.achs = [i \in DOMAIN @ \ {achievementId} |-> @[i]]])

\* The four built-in achievements (reach level 3, reach pride 20, complete
\* 10 tasks, complete 5 weekly tasks); progress fields keep their defaults.
buildSystemTemplates ==
    << [Achievement EXCEPT
            !.name = "Newbie", !.rewardType = "WithReward",
            !.conditions = << Condition("ReachLevel", 3, 0, "") >>,
            !.rewardCoins = 50,
            !.rewardAttributes = [ZeroAttributes EXCEPT !.pride = 2]],
       [Achievement EXCEPT
            !.name = "Pride", !.rewardType = "WithReward",
            !.conditions = << Condition("ReachPride", 20, 0, "") >>,
            !.rewardCoins = 80,
            !.rewardAttributes = [ZeroAttributes EXCEPT !.pride = 5]],
       [Achievement EXCEPT
            !.name = "TaskHunter", !.rewardType = "NoReward",
            !.conditions = << Condition("CompleteAnyTask", 10, 0, "") >>],
       [Achievement EXCEPT
            !.name = "WeeklyStar", !.rewardType = "WithReward",
            !.conditions = << Condition("CompleteTaskType", 5, 0, "Weekly") >>,
            !.rewardCoins = 40,
            !.rewardAttributes =
                [ZeroAttributes EXCEPT !.execution = 1, !.pride = 1]] >>

RECURSIVE EnsureTemplates(_, _)
\* The loop of ensureSystemAchievements: a template no cached system
\* achievement has the name of is inserted and cached as built.
EnsureTemplates(m, templates) ==
    IF templates = <<>> THEN m
    ELSE IF \E id \in DOMAIN m.achs :
                /\ m.achs[id].type = "System"
                /\ m.achs[id].name = Head(templates).name
    THEN EnsureTemplates(m, Tail(templates))
    ELSE Bind(Len(m.db.cur.achs) + 1, LAMBDA newId :
        Then(Then(createAchievement(m, toRecord(Head(templates))), LAMBDA s :
                [s EXCEPT !.achs = CachePut(@, newId,
                                    [Head(templates) EXCEPT !.id = newId])]),
             LAMBDA s : EnsureTemplates(s, Tail(templates))))

ensureSystemAchievements(m) == EnsureTemplates(m, buildSystemTemplates)

\* SELECT ... FROM achievements WHERE owner = ? ORDER BY id: the rows by id.
getAchievementsForOwner(m) ==
    [i \in RowIds(m) |-> [m.db.cur.achs[i] EXCEPT !.id = i]]

\* AchievementManager::refreshFromDatabase
refreshFromDatabase(m) ==
    IF m.user = <<>> THEN m
    ELSE Then(ReadStep(m), LAMBDA s :
        ensureSystemAchievements([s EXCEPT !.achs =
            [i \in RowIds(s) |->
                hydrateAchievement(getAchievementsForOwner(s)[i])]]))

-----------------------------------------------------------------------------
(* Task and TaskManager *)

\* A task as the cache holds it (the attribute reward is all zero).
Task(id, type, difficultyStars, coinReward, growthReward, bonusStreak) ==
    [id |-> id, type |-> type, difficultyStars |-> difficultyStars,
     completed |-> FALSE, coinReward |-> coinReward,
     growthReward |-> growthReward, attributeReward |-> ZeroAttributes,
     bonusStreak |-> bonusStreak, forgivenessCoupons |-> 0, deadline |-> 0,
     progressValue |-> 0, progressGoal |-> 100]

\* TaskManager::toRecord: the row of the tasks table.
TaskToRecord(task) ==
    [id |-> task.id, type |-> task.type, difficulty |-> task.difficultyStars,
     completed |-> task.completed, coinReward |-> task.coinReward,
     growthReward |-> task.growthReward,
     attributeReward |-> task.attributeReward,
     bonusStreak |-> task.bonusStreak,
     forgivenessCoupons |-> task.forgivenessCoupons,
     deadline |-> task.deadline, progressValue |-> task.progressValue,
     progressGoal |-> task.progressGoal]

\* UPDATE tasks SET ... WHERE id = ?
updateTask(m, record) ==
    WriteStep(m, IF record.id \in 1..Len(m.db.cur.tasks)
                 THEN [m.db.cur EXCEPT !.tasks[record.id] = record]
                 ELSE m.db.cur)

\* The two factors in hundredths: 1 + (stars - 1) * 0.15, + 0.35 for a
\* Semester task, + 0.1 for a Weekly one; 1 + streak * 0.05.
difficultyFactor(task) ==
    100 + (task.difficultyStars - 1) * 15
        + (IF task.type = "Semester" THEN 35
           ELSE IF task.type = "Weekly" THEN 10 ELSE 0)

streakFactor(task) == 100 + task.bonusStreak * 5

\* rewardFactor is a double, and 0.15, 0.05, 0.1 and 0.35 have no exact
\* binary64 value.  The inputs <<type, stars, streak, reward>> (stars 1..4,
\* streak 0..6, reward 0, 50, 60, 100 or 300) for which reward * rewardFactor
\* is a half in exact arithmetic and lies below that half in binary64.
BelowHalf ==
    { <<"Daily", 1, 3, 50>>, <<"Daily", 2, 0, 50>>, <<"Daily", 2, 2, 100>>,
      <<"Daily", 2, 2, 300>>, <<"Daily", 2, 6, 300>>, <<"Daily", 3, 3, 300>>,
      <<"Custom", 1, 3, 50>>, <<"Custom", 2, 0, 50>>,
      <<"Custom", 2, 2, 100>>, <<"Custom", 2, 2, 300>>,
      <<"Custom", 2, 6, 300>>, <<"Custom", 3, 3, 300>>,
      <<"Weekly", 1, 3, 100>>, <<"Weekly", 1, 3, 300>>,
      <<"Semester", 2, 3, 60>>, <<"Semester", 4, 3, 50>> }

\* std::round(value) for value = hundredths / 10000 >= 0 in exact arithmetic:
\* halves go away from zero.
RoundExact(hundredths) == (hundredths + 5000) \div 10000

\* std::max(0, static_cast<int>(std::round(reward * rewardFactor))): where
\* the binary64 product is below the half, std::round goes down.
FinalReward(reward, task) ==
    Max(0, IF <<task.type, task.difficultyStars, task.bonusStreak, reward>>
                \in BelowHalf
           THEN (reward * difficultyFactor(task) * streakFactor(task))
                    \div 10000
           ELSE RoundExact(reward * difficultyFactor(task) * streakFactor(task)))

\* The attribute reward with the bonus of the task type.
FinalAttributes(task) ==
    [task.attributeReward EXCEPT
        !.execution = IF task.type = "Daily" THEN @ + 1 ELSE @,
        !.social = IF task.type = "Weekly" THEN @ + task.difficultyStars ELSE @,
        !.knowledge =
            IF task.type = "Semester" THEN @ + task.difficultyStars * 2 ELSE @,
        !.perseverance =
            IF task.type = "Semester" THEN @ + task.difficultyStars ELSE @]

mapToUserCategory(type) ==
    CASE type = "Daily" -> "Academic"
      [] type = "Weekly" -> "Social"
      [] type = "Semester" -> "Academic"
      [] type = "Custom" -> "Personal"

\* MainWindow::refreshDashboard, the last slot of coinsChanged: reloadTasks
\* locks the std::mutex of TaskManager that the running task handler holds,
\* which is undefined behaviour; relock is what the build makes of it.
refreshDashboard(m) ==
    CASE m.relock = "proceed" -> m
      [] m.relock = "throw" -> Throw(m)
      [] m.relock = "block" -> Block(m)

\* UserManager::applyTaskCompletion.  The signals are delivered at once, to
\* the slots in the order they were connected; an exception of a slot leaves
\* through the emit.
applyTaskCompletion(m, growthGain, coinGain, attributeBonus, category) ==
    IF m.user = <<>> THEN Throw(m)
    ELSE Bind(m.user[1], LAMBDA previous :
        Then(Then(Then(
            persistUser([m EXCEPT !.user[1] = recordTaskCompletion(
                applyAttributeBonus(
                    addCoins(addGrowthPoints(@, growthGain), coinGain),
                    attributeBonus), category)]),
            LAMBDA s : IF s.user[1].level # previous.level
                       THEN Then(onUserLevelChanged(Emit(s, "levelChanged"),
                                                    s.user[1].level),
                                 recordAutoLog)
                       ELSE s),
            LAMBDA s : IF s.user[1].coins # previous.coins
                       THEN Then(onCoinsChanged(Emit(s, "coinsChanged"),
                                                s.user[1].coins),
                                 refreshDashboard)
                       ELSE s),
            LAMBDA s : IF s.user[1].attributes.pride # previous.attributes.pride
                       THEN onPrideChanged(Emit(s, "prideChanged"),
                                           s.user[1].attributes.pride)
                       ELSE s))

\* The try block of applyRewardsLocked from the reward on.
RewardSteps(m, id) ==
    Then(Then(Then(Then(Then(
        applyTaskCompletion(m, FinalReward(m.tasks[id].growthReward, m.tasks[id]),
                            FinalReward(m.tasks[id].coinReward, m.tasks[id]),
                            FinalAttributes(m.tasks[id]),
                            mapToUserCategory(m.tasks[id].type)),
        LAMBDA s : IF /\ s.tasks[id].type = "Weekly"
                      /\ (s.tasks[id].bonusStreak + 1) % 4 = 0
                   THEN unlockAchievement(s) ELSE s),
        LAMBDA s : Bind([s EXCEPT !.tasks[id].completed = TRUE,
                                  !.tasks[id].bonusStreak = @ + 1,
                                  !.tasks[id].progressValue =
                                      s.tasks[id].progressGoal],
                        LAMBDA t : updateTask(t, TaskToRecord(t.tasks[id])))),
        LAMBDA s : [s EXCEPT !.stats[s.tasks[id].type] = @ + 1]),
        LAMBDA s : IF s.stats[s.tasks[id].type] % 10 = 0
                   THEN unlockAchievement(s) ELSE s),
        commitTransaction)

\* transactionStarted is set once beginTransaction has returned, whatever it
\* returned.
applyRewardsLocked(m, id) ==
    Bind(beginTransaction(m), LAMBDA s0 :
        Catch(Then(s0, LAMBDA s : RewardSteps(s, id)),
              LAMBDA s : CatchRollback(s, ~s0.exc)))

\* A completion that does not look at the completed flag.
markTaskCompleted_again(m, taskId) ==
    IF taskId \notin DOMAIN m.tasks THEN Throw(m)
    ELSE applyRewardsLocked(m, taskId)

markTaskCompleted(m, taskId) ==
    IF taskId \notin DOMAIN m.tasks THEN Throw(m)
    ELSE IF m.tasks[taskId].completed THEN m
    ELSE applyRewardsLocked(m, taskId)

RECURSIVE resetTasksByPredicate(_, _, _)
\* The loop over the cache (ids in visiting order): a task of the type loses
\* its streak unless it was completed, starts a new cycle and is saved.
resetTasksByPredicate(m, ids, type) ==
    IF ids = <<>> THEN m
    ELSE IF m.tasks[Head(ids)].type # type
    THEN resetTasksByPredicate(m, Tail(ids), type)
    ELSE Bind([m EXCEPT
            !.tasks[Head(ids)].bonusStreak =
                IF m.tasks[Head(ids)].completed THEN @ ELSE 0,
            !.tasks[Head(ids)].completed = FALSE,
            !.tasks[Head(ids)].progressValue = 0],
        LAMBDA t :
            Then(updateTask(t, TaskToRecord(t.tasks[Head(ids)])),
                 LAMBDA s : resetTasksByPredicate(s, Tail(ids), type)))

\* A failure that never spends a coupon.
recordFailure_unforgiving(task, useForgiveness) ==
    [task EXCEPT !.bonusStreak = 0, !.completed = FALSE, !.progressValue = 0]

\* Task::recordFailure
recordFailure(task, useForgiveness) ==
    IF useForgiveness /\ task.forgivenessCoupons > 0
    THEN [task EXCEPT !.forgivenessCoupons = @ - 1]
    ELSE [task EXCEPT !.bonusStreak = 0, !.completed = FALSE,
                      !.progressValue = 0]

\* Task::isExpired: the reference is after the deadline.
isExpiredTask(task, reference) == reference > task.deadline

RECURSIVE enforceSemesterDeadlinesLocked(_, _)
\* The loop over the cache (ids in visiting order): a Semester task that is
\* not completed and whose deadline has passed fails without forgiveness
\* and is saved.
enforceSemesterDeadlinesLocked(m, ids) ==
    IF ids = <<>> THEN m
    ELSE IF \/ m.tasks[Head(ids)].type # "Semester"
            \/ m.tasks[Head(ids)].completed
            \/ ~isExpiredTask(m.tasks[Head(ids)], m.now)
    THEN enforceSemesterDeadlinesLocked(m, Tail(ids))
    ELSE Bind([m EXCEPT !.tasks[Head(ids)] = recordFailure(@, FALSE)],
        LAMBDA t :
            Then(updateTask(t, TaskToRecord(t.tasks[Head(ids)])),
                 LAMBDA s : enforceSemesterDeadlinesLocked(s, Tail(ids))))

resetDailyTasks(m) ==
    Then(resetTasksByPredicate(m, IdsInOrder(DOMAIN m.tasks, m.order), "Daily"),
         LAMBDA s : enforceSemesterDeadlinesLocked(s,
                        IdsInOrder(DOMAIN s.tasks, s.order)))

\* A weekly reset that does not look at the day of the week.
resetWeeklyTasks_anyday(m) ==
    Then(resetTasksByPredicate(m, IdsInOrder(DOMAIN m.tasks, m.order),
                               "Weekly"),
         LAMBDA s : enforceSemesterDeadlinesLocked(s,
                        IdsInOrder(DOMAIN s.tasks, s.order)))

\* QDate::dayOfWeek of the clock, 1 for Monday: minute 0 begins a Monday.
dayOfWeek(instant) == ((instant \div 1440) % 7) + 1

resetWeeklyTasks(m) ==
    IF dayOfWeek(m.now) # 1 THEN m
    ELSE Then(resetTasksByPredicate(m, IdsInOrder(DOMAIN m.tasks, m.order),
                                    "Weekly"),
              LAMBDA s : enforceSemesterDeadlinesLocked(s,
                            IdsInOrder(DOMAIN s.tasks, s.order)))

\* TaskManager::failTask
failTask(m, taskId, useForgiveness) ==
    IF taskId \notin DOMAIN m.tasks THEN Throw(m)
    ELSE Bind([m EXCEPT !.tasks[taskId] = recordFailure(@, useForgiveness)],
              LAMBDA t : updateTask(t, TaskToRecord(t.tasks[taskId])))

\* TaskManager::updateTaskProgress
updateTaskProgress(m, taskId, delta) ==
    IF taskId \notin DOMAIN m.tasks THEN Throw(m)
    ELSE Bind([m EXCEPT !.tasks[taskId].progressValue =
                    Clamp(@ + delta, 0, m.tasks[taskId].progressGoal)],
        LAMBDA t :
            IF t.tasks[taskId].progressValue >= t.tasks[taskId].progressGoal
            THEN applyRewardsLocked(t, taskId)
            ELSE updateTask(t, TaskToRecord(t.tasks[taskId])))

-----------------------------------------------------------------------------
(* Observation of the last call *)

\* The achievements whose reward a call has applied to the ledger, and those
\* among them whose reward had been applied before or is applied twice by
\* the call.
Granted(grants) == {grants[k].id : k \in 1..Len(grants)}

GrantedAgain(grants, before) ==
    {grants[k].id : k \in {j \in 1..Len(grants) :
        \/ grants[j].id \in before
        \/ \E i \in 1..(j - 1) : grants[i].id = grants[j].id}}

\* rewarded and again are the history of the session: the achievements
\* rewarded so far, and the ones rewarded more than once.
Observe(op, outcome, reason, m, id, qty) ==
    [op |-> op, outcome |-> outcome, reason |-> reason, ret |-> m.ret,
     stmts |-> m.stmts, id |-> id, qty |-> qty,
     grants |-> m.grants, signals |-> m.signals,
     rewarded |-> last.rewarded \cup Granted(m.grants),
     again |-> last.again \cup GrantedAgain(m.grants, last.rewarded)]

NoCall ==
    [op |-> "none", outcome |-> "ok", reason |-> "", ret |-> FALSE,
     stmts |-> <<>>, id |-> 0, qty |-> 0, grants |-> <<>>, signals |-> <<>>,
     rewarded |-> {}, again |-> {}]

Outcome(m) == IF m.exc THEN "throw" ELSE "ok"

Issued(stmts, sql) == {i \in 1..Len(stmts) : stmts[i][1] = sql}
Performed(stmts, sql) == {i \in 1..Len(stmts) : stmts[i] = <<sql, TRUE>>}

-----------------------------------------------------------------------------
(* Specification SpecTx: any sequence of calls of the transaction API *)

EmptyTables == Tables(UserRow(0), <<>>, <<>>, <<>>, <<>>)

InitTx ==
    /\ db = OpenDatabase(EmptyTables)
    /\ activeUser = <<>>
    /\ tasks = <<>>
    /\ completionStats = <<>>
    /\ achievements = <<>>
    /\ hung = FALSE
    /\ effects = <<>>
    /\ now = 0
    /\ last = NoCall

TxFrame ==
    UNCHANGED <<activeUser, tasks, completionStats, achievements, hung,
                effects, now>>

TxBegin ==
    \E fail \in BOOLEAN :
      \E m \in {beginTransaction(Machine(IF fail THEN 1 ELSE 0, FALSE))} :
        /\ db.depth < MaxDepth
        /\ db' = m.db
        /\ last' = Observe("beginTransaction", Outcome(m), "", m, 0, 0)
        /\ TxFrame

TxCommit ==
    \E fail \in BOOLEAN :
      \E m \in {commitTransaction(Machine(IF fail THEN 1 ELSE 0, FALSE))} :
        /\ db' = m.db
        /\ last' = Observe("commitTransaction", Outcome(m), "", m, 0, 0)
        /\ TxFrame

TxRollback ==
    \E fail \in BOOLEAN :
      \E m \in {rollbackTransaction(Machine(0, fail))} :
        /\ db' = m.db
        /\ last' = Observe("rollbackTransaction", Outcome(m), "", m, 0, 0)
        /\ TxFrame

TxWrite ==
    \E v \in 0..MaxWriteValue, fail \in BOOLEAN :
      \E m \in {updateUserCurrency(Machine(IF fail THEN 1 ELSE 0, FALSE), v)} :
        /\ db' = m.db
        /\ last' = Observe("updateUserCurrency", Outcome(m), "", m, 0, v)
        /\ TxFrame

NextTx == TxBegin \/ TxCommit \/ TxRollback \/ TxWrite

SpecTx == InitTx /\ [][NextTx]_vars

-----------------------------------------------------------------------------
(* Specification SpecShop: the session and the shop *)

StartCoins == 160    \* balance of the account when the shop is opened
MaxQuantity == 2     \* quantities 0..MaxQuantity are requested
MaxFailAt == 9       \* the failing persistence call is one of the first 9

RelockOutcomes == {"proceed", "throw", "block"}

\* The catalog as createItem stored it: the item for sale (60), a limited
\* item (60, one per user), an item not on sale and one for level 2.
Catalog ==
    << applyPricingStrategy(PropItem("RestDay", 0, TRUE, 1)),
       applyPricingStrategy(PropItem("ForgivenessCoupon", 1, TRUE, 1)),
       applyPricingStrategy(PropItem("DoubleExpCard", 0, FALSE, 1)),
       applyPricingStrategy(PropItem("RestDay", 0, TRUE, 2)) >>

InitShop ==
    /\ db = OpenDatabase(Tables(UserRow(StartCoins), <<>>, <<>>, <<>>, Catalog))
    /\ activeUser = <<>>
    /\ tasks = <<>>
    /\ completionStats = <<>>
    /\ achievements = <<>>
    /\ hung = FALSE
    /\ effects = <<>>
    /\ now = 0
    /\ last = NoCall

ShopFrame == UNCHANGED <<tasks, completionStats, achievements, effects, now>>

Login ==
    \E failAt \in 0..1 :
      \E m \in {login(Machine(failAt, FALSE))} :
        /\ ~hung
        /\ db' = m.db
        /\ activeUser' = m.user
        /\ last' = Observe("login", Outcome(m), "", m, 0, 0)
        /\ UNCHANGED <<tasks, completionStats, achievements, hung, effects, now>>

Logout ==
    \E m \in {logout(Machine(0, FALSE))} :
        /\ ~hung
        /\ db' = m.db
        /\ activeUser' = m.user
        /\ last' = Observe("logout", Outcome(m), "", m, 0, 0)
        /\ UNCHANGED <<tasks, completionStats, achievements, hung, effects, now>>

PurchaseItem ==
    \E itemId \in 1..(Len(Catalog) + 1), quantity \in 0..MaxQuantity,
       relock \in RelockOutcomes, failAt \in 0..MaxFailAt, rbFail \in BOOLEAN :
        /\ ~hung
        /\ db.depth < MaxDepth
        \* what the relock does depends on no other input, and ROLLBACK
        \* is only reached after a failure
        /\ relock # "proceed" => (failAt = 0 /\ itemId = 1 /\ quantity = 1)
        /\ rbFail => failAt > 0
        /\ \E r \in {purchaseItem(Machine(failAt, rbFail), itemId, quantity,
                                  relock)} :
              /\ db' = r.m.db
              /\ activeUser' = r.m.user
              /\ hung' = (r.outcome = "blocked")
              /\ last' = Observe("purchaseItem", r.outcome, r.reason, r.m,
                                 itemId, quantity)
              /\ ShopFrame

NextShop == Login \/ Logout \/ PurchaseItem

SpecShop == InitShop /\ [][NextShop]_vars

-----------------------------------------------------------------------------
(* Inputs and frame shared by the task and achievement specifications *)

Orders == {"ascending", "descending"}

MachineWith(failAt, rbFail, order, relock) ==
    [Machine(failAt, rbFail) EXCEPT !.order = order, !.relock = relock]

\* The tasks table: a daily task and a weekly task on a streak of three.
TaskRows ==
    << TaskToRecord(Task(1, "Daily", 1, 60, 100, 0)),
       TaskToRecord(Task(2, "Weekly", 3, 100, 300, 3)) >>

\* A handler ran: the state it left.
Ran(op, m, id, qty) ==
    /\ db' = m.db
    /\ activeUser' = m.user
    /\ tasks' = m.tasks
    /\ completionStats' = m.stats
    /\ achievements' = m.achs
    /\ hung' = m.blocked
    /\ effects' = m.effects
    /\ now' = now
    /\ last' = Observe(op, IF m.blocked THEN "blocked" ELSE Outcome(m), "",
                       m, id, qty)

\* The same, keeping only the outcome and the rewards of the call.
RanAch(op, m) == Ran(op, [m EXCEPT !.stmts = <<>>], 0, 0)

Ready == ~hung /\ db.depth < MaxDepth

\* Fault injection: the first persistence call of the handler fails, or none.
FirstCall(fail) == IF fail THEN 1 ELSE 0

-----------------------------------------------------------------------------
(* Specification SpecAch: the achievement handlers *)

MaxCustom == 3       \* custom achievements created
MaxTaskEvents == 1   \* taskCompleted events delivered
MaxUnlocks == 2      \* unlocks counted by the ledger before a progress event

\* The objects passed to createCustomAchievement: a counter with a reward of
\* coins and pride, a pride goal rewarded with pride, and a goal of pride and
\* coins without reward.
Drafts ==
    << [Achievement EXCEPT
            !.name = "Counter", !.rewardType = "WithReward",
            !.conditions = << Condition("CustomCounter", 1, 0, "") >>,
            !.rewardCoins = 50,
            !.rewardAttributes = [ZeroAttributes EXCEPT !.pride = 5]],
       [Achievement EXCEPT
            !.name = "Proud", !.rewardType = "WithReward",
            !.conditions = << Condition("ReachPride", 5, 0, "") >>,
            !.rewardAttributes = [ZeroAttributes EXCEPT !.pride = 5]],
       [Achievement EXCEPT
            !.name = "Both", !.rewardType = "NoReward",
            !.conditions = << Condition("ReachPride", 10, 0, ""),
                              Condition("ReachCoins", 50, 0, "") >>] >>

\* The preset account is logged in and no achievement is loaded yet: main()
\* refreshes the cache before the window takes any request.
InitAch ==
    /\ db = OpenDatabase(EmptyTables)
    /\ activeUser = << hydrateUser(UserRow(0)) >>
    /\ tasks = <<>>
    /\ completionStats = [Daily |-> 0, Weekly |-> 0]
    /\ achievements = <<>>
    /\ hung = FALSE
    /\ effects = <<>>
    /\ now = 0
    /\ last = NoCall

RefreshFromDatabase ==
    \E fail \in BOOLEAN :
      \E m \in {refreshFromDatabase(Machine(FirstCall(fail), FALSE))} :
        Ready /\ RanAch("refreshFromDatabase", m)

CreateCustomAchievement ==
    \E d \in 1..Len(Drafts), fail \in BOOLEAN :
      \E m \in {createCustomAchievement(Machine(FirstCall(fail), FALSE), Drafts[d])} :
        /\ Ready
        /\ achievements # <<>>
        /\ Cardinality({id \in DOMAIN achievements :
                            achievements[id].type = "Custom"}) < MaxCustom
        /\ \A id \in DOMAIN achievements :
                achievements[id].name # Drafts[d].name
        /\ RanAch("createCustomAchievement", m)

\* The object is the cached copy as achievementById returned it (d = 0), or
\* a newly constructed one that carries this id and the fields of its draft.
UpdateCustomAchievement ==
    \E id \in DOMAIN achievements, d \in 0..Len(Drafts), fail \in BOOLEAN :
      \E m \in {updateCustomAchievement(Machine(FirstCall(fail), FALSE),
                    IF d = 0 THEN achievements[id]
                    ELSE [Drafts[d] EXCEPT !.id = id, !.type = "Custom"])} :
        /\ Ready
        /\ d # 0 => achievements[id].name = Drafts[d].name
        /\ RanAch("updateCustomAchievement", m)

RecordCustomProgress ==
    \E id \in DOMAIN achievements, order \in Orders,
       fail \in BOOLEAN :
      \E m \in {recordCustomProgress(
                    MachineWith(FirstCall(fail), FALSE, order, "proceed"), id, 1)} :
        /\ Ready
        /\ achievements[id].type = "Custom"
        /\ activeUser[1].progress.achievementsUnlocked < MaxUnlocks
        /\ RanAch("recordCustomProgress", m)

\* The slot of taskCompleted.
OnTaskCompleted ==
    \E type \in {"Daily", "Weekly"}, order \in Orders :
      \E m \in {onTaskCompleted(MachineWith(0, FALSE, order, "proceed"), type)} :
        /\ Ready
        /\ \A id \in DOMAIN achievements :
             \A i \in 1..Len(achievements[id].conditions) :
                achievements[id].conditions[i].type = "CompleteAnyTask"
                    => achievements[id].conditions[i].currentValue < MaxTaskEvents
        /\ RanAch("onTaskCompleted", m)

NextAch ==
    \/ RefreshFromDatabase
    \/ CreateCustomAchievement
    \/ UpdateCustomAchievement
    \/ RecordCustomProgress
    \/ OnTaskCompleted

SpecAch == InitAch /\ [][NextAch]_vars

-----------------------------------------------------------------------------
(* Specification SpecTask: completing and resetting tasks *)

MaxCompletions == 2   \* task completions counted by the session
MaxTaskFailAt == 8    \* the failing persistence call of a task handler

\* TaskManager::hydrateTask
hydrateTask(record) ==
    [id |-> record.id, type |-> record.type,
     difficultyStars |-> record.difficulty, completed |-> record.completed,
     coinReward |-> record.coinReward, growthReward |-> record.growthReward,
     attributeReward |-> record.attributeReward,
     bonusStreak |-> Max(0, record.bonusStreak),
     forgivenessCoupons |-> Max(0, record.forgivenessCoupons),
     deadline |-> record.deadline,
     progressValue |-> Max(0, record.progressValue),
     progressGoal |-> Max(1, record.progressGoal)]

\* The preset account is logged in and the constructor of TaskManager has
\* loaded the task cache; main() then refreshes the achievements before the
\* window takes any request.
InitTask ==
    /\ db = OpenDatabase(Tables(UserRow(0), TaskRows, <<>>, <<>>, <<>>))
    /\ activeUser = << hydrateUser(UserRow(0)) >>
    /\ tasks = [i \in 1..Len(TaskRows) |-> hydrateTask(TaskRows[i])]
    /\ completionStats = [Daily |-> 0, Weekly |-> 0]
    /\ achievements = <<>>
    /\ hung = FALSE
    /\ effects = <<>>
    /\ now = 0
    /\ last = NoCall

LoadAchievements ==
    \E m \in {refreshFromDatabase(Machine(0, FALSE))} :
        /\ Ready
        /\ achievements = <<>>
        /\ RanAch("refreshFromDatabase", m)

MarkTaskCompleted ==
    \E taskId \in DOMAIN tasks, order \in Orders, relock \in RelockOutcomes,
       failAt \in 0..MaxTaskFailAt, rbFail \in BOOLEAN :
        /\ Ready
        /\ achievements # <<>>
        /\ activeUser[1].progress.totalTasksCompleted < MaxCompletions
        /\ relock # "proceed" => failAt = 0
        /\ rbFail => failAt > 0
        /\ \E m \in {markTaskCompleted(
                        MachineWith(failAt, rbFail, order, relock), taskId)} :
              Ran("markTaskCompleted", m, taskId, 0)

ResetDailyTasks ==
    \E order \in Orders, fail \in BOOLEAN :
      \E m \in {resetDailyTasks(
                    MachineWith(FirstCall(fail), FALSE, order, "proceed"))} :
        /\ Ready
        /\ achievements # <<>>
        /\ Ran("resetDailyTasks", m, 0, 0)

NextTask == LoadAchievements \/ MarkTaskCompleted \/ ResetDailyTasks

SpecTask == InitTask /\ [][NextTask]_vars

-----------------------------------------------------------------------------
(* Claims about the transaction API (checked under SpecTx) *)

\* C2: beginTransaction returns true exactly when the call moves the depth
\* from 0 to 1, which is the only case in which a physical BEGIN is issued;
\* a call made while a transaction is already open (the lock is owned)
\* returns false, raises the depth by one and issues no BEGIN.
C2_BeginReturnsOutermost ==
    [][(last'.op = "beginTransaction" /\ last'.outcome = "ok") =>
        /\ last'.ret <=> (db.depth = 0 /\ db'.depth = 1)
        /\ last'.ret <=> (Issued(last'.stmts, "BEGIN") # {})
        /\ db.locked => /\ ~last'.ret
                        /\ db'.depth = db.depth + 1
                        /\ Issued(last'.stmts, "BEGIN") = {}]_vars

\* C3: commitTransaction issues a physical COMMIT only when called at depth
\* 1, and a COMMIT that is performed leaves the depth at 0 with the lock
\* released and the written rows durable; at depth n > 1 the call only
\* lowers the depth by one; with no matching open transaction (lock not
\* owned, or depth 0) it throws, issues no COMMIT and changes nothing.
C3_CommitOnlyOutermost ==
    [][last'.op = "commitTransaction" =>
        /\ Issued(last'.stmts, "COMMIT") # {} <=> (db.locked /\ db.depth = 1)
        /\ Performed(last'.stmts, "COMMIT") # {} =>
              /\ last'.outcome = "ok"
              /\ db'.depth = 0 /\ ~db'.locked /\ ~db'.physOpen
              /\ db'.saved = db.cur /\ db'.cur = db.cur
        /\ (db.locked /\ db.depth = 1 /\ Performed(last'.stmts, "COMMIT") = {}) =>
              (last'.outcome = "throw" /\ db' = db)
        /\ (db.locked /\ db.depth > 1) =>
              /\ last'.outcome = "ok"
              /\ db' = [db EXCEPT !.depth = db.depth - 1]
        /\ (~db.locked \/ db.depth = 0) =>
              (last'.outcome = "throw" /\ db' = db)]_vars

\* C3 witness: an outermost commit has performed the physical COMMIT of
\* rows written inside the transaction.
C3_Witness ==
    /\ last.op = "commitTransaction" /\ last.outcome = "ok"
    /\ last.stmts = << <<"COMMIT", TRUE>> >>
    /\ db.depth = 0 /\ db.saved.user.currency = MaxWriteValue

\* C4: rollbackTransaction called at depth n >= 1 always issues a physical
\* ROLLBACK and resets the depth to 0 (lock released), so that the next
\* beginTransaction returns true.
C4_RollbackResetsDepth ==
    [][(last'.op = "rollbackTransaction" /\ db.locked /\ db.depth >= 1) =>
        /\ Issued(last'.stmts, "ROLLBACK") # {}
        /\ db'.depth = 0
        /\ ~db'.locked]_vars

-----------------------------------------------------------------------------
(* Claims about purchaseItem (checked under SpecShop) *)

\* C1: every purchaseItem call that passes validation and completes performs
\* exactly one physical BEGIN and exactly one physical COMMIT, although
\* persistUser calls beginTransaction / commitTransaction inside it; a call
\* in which a step after the purchase's beginTransaction fails issues exactly
\* one physical ROLLBACK and performs no physical COMMIT.
C1_OneBeginOneCommit ==
    [][last'.op = "purchaseItem" =>
        /\ last'.outcome = "success" =>
              /\ Cardinality(Performed(last'.stmts, "BEGIN")) = 1
              /\ Cardinality(Performed(last'.stmts, "COMMIT")) = 1
              /\ Cardinality(Issued(last'.stmts, "BEGIN")) = 1
              /\ Cardinality(Issued(last'.stmts, "COMMIT")) = 1
        /\ (/\ last'.outcome = "throw" /\ last'.reason = "Transaction"
            /\ << "BEGIN", FALSE >> \notin {last'.stmts[i] : i \in DOMAIN last'.stmts}) =>
              /\ Cardinality(Issued(last'.stmts, "ROLLBACK")) = 1
              /\ Performed(last'.stmts, "COMMIT") = {}]_vars

\* The item id names a row of the catalog.
C5_Known(itemId) == itemId \in 1..Len(db.cur.items)

\* The price charged for the item: the stored row repriced.
C5_Price(itemId) == applyPricingStrategy(db.cur.items[itemId]).priceCoins

\* Quantity of the item the user owns, counted over the inventory rows.
C5_Owned(itemId) ==
    LET rows == {i \in 1..Len(db.cur.inv) : db.cur.inv[i].itemId = itemId}
        RECURSIVE Total(_)
        Total(S) == IF S = {} THEN 0
                    ELSE LET i == CHOOSE x \in S : TRUE
                         IN  db.cur.inv[i].quantity + Total(S \ {i})
    IN  Total(rows)

\* Some validation check of the purchase (itemId, quantity) fails in the
\* current state.
C5_CheckFails(itemId, quantity) ==
    \/ activeUser = <<>>
    \/ ~C5_Known(itemId)
    \/ ~db.cur.items[itemId].available
    \/ quantity <= 0
    \/ activeUser[1].level < db.cur.items[itemId].levelRequirement
    \/ C5_Price(itemId) * quantity > activeUser[1].coins
    \/ /\ db.cur.items[itemId].purchaseLimit > 0
       /\ C5_Owned(itemId) + quantity > db.cur.items[itemId].purchaseLimit

\* C5: a purchaseItem call that fails a validation check (no session,
\* unknown or unavailable item, quantity <= 0, level below the requirement,
\* price * quantity above the balance, purchase limit exceeded) returns a
\* failure with a reason, leaves the ledger, the inventory rows and hence
\* the owned count unchanged, and opens no transaction; a call that goes on
\* to the purchase transaction fails none of the checks, and a purchase
\* that only lacks funds is refused for insufficient funds.
C5_InvalidPurchaseChangesNothing ==
    [][last'.op = "purchaseItem" =>
        /\ last'.outcome = "invalid" =>
              /\ last'.reason \in {"NoSession", "NoItem", "Unavailable",
                                   "Quantity", "Level", "Funds", "Limit"}
              /\ C5_CheckFails(last'.id, last'.qty)
              /\ db' = db
              /\ activeUser' = activeUser
              /\ last'.stmts = <<>>
        /\ C5_CheckFails(last'.id, last'.qty) =>
              \/ last'.outcome \in {"invalid", "blocked"}
              \/ last'.outcome = "throw" /\ last'.reason = "Lookup"
        /\ activeUser = <<>> =>
              (last'.outcome = "invalid" /\ last'.reason = "NoSession")
        /\ (/\ last'.outcome = "invalid"
            /\ activeUser # <<>> /\ C5_Known(last'.id) /\ last'.qty > 0
            /\ db.cur.items[last'.id].available
            /\ activeUser[1].level >= db.cur.items[last'.id].levelRequirement
            /\ C5_Price(last'.id) * last'.qty > activeUser[1].coins) =>
              last'.reason = "Funds"]_vars

\* C5 witness: an item priced 60 was asked for with quantity 2 at balance
\* 100 and the purchase was refused for insufficient funds.
C5_Witness ==
    /\ last.op = "purchaseItem" /\ last.outcome = "invalid"
    /\ last.reason = "Funds" /\ last.qty = 2
    /\ C5_Known(last.id) /\ C5_Price(last.id) = 60
    /\ activeUser # <<>> /\ activeUser[1].coins = 100
    /\ db.saved.user.currency = 100

\* C6: when a step inside the purchase transaction throws (the purchase's
\* BEGIN was performed), purchaseItem issues a ROLLBACK and re-throws, and
\* afterwards the in-memory balance and the persisted balance equal their
\* values before the call and the inventory rows are those before the call.
C6_FailedPurchaseRestoresLedger ==
    [][(/\ last'.op = "purchaseItem"
        /\ last'.outcome = "throw" /\ last'.reason = "Transaction"
        /\ Performed(last'.stmts, "BEGIN") # {}) =>
        /\ Issued(last'.stmts, "ROLLBACK") # {}
        /\ activeUser'[1].coins = activeUser[1].coins
        /\ db'.saved.user.currency = db.saved.user.currency
        /\ db'.saved.inv = db.saved.inv]_vars

-----------------------------------------------------------------------------
(* Claims about task completion (checked under SpecTask) *)

\* C7: a markTaskCompleted call that throws after its BEGIN was performed
\* leaves the cached tasks, the ledger of the session and the persisted
\* ledger and task rows as they were before the call.
C7_FailedCompletionRestoresAll ==
    [][(/\ last'.op = "markTaskCompleted"
        /\ last'.outcome = "throw"
        /\ Performed(last'.stmts, "BEGIN") # {})
        => (/\ tasks' = tasks
            /\ activeUser' = activeUser
            /\ db'.cur.user = db.cur.user
            /\ db'.cur.tasks = db.cur.tasks)]_vars

-----------------------------------------------------------------------------
(* Claims about the achievements (checked under SpecAch) *)

\* C8: every cached achievement has 0 <= progressValue <= progressGoal,
\* with progressGoal = max(1, sum of the condition targets) and
\* progressValue = sum of min(current, target) over its conditions.
C8_ProgressMatchesConditions ==
    \A id \in DOMAIN achievements :
        /\ 0 <= achievements[id].progressValue
        /\ achievements[id].progressValue <= achievements[id].progressGoal
        /\ achievements[id].progressGoal =
                Max(1, SumTargets(achievements[id].conditions))
        /\ achievements[id].progressValue =
                SumProgress(achievements[id].conditions)

\* C9: an achievement that is unlocked and still cached after a call is
\* still unlocked.
C9_UnlockedNeverReverts ==
    [][\A id \in DOMAIN achievements \cap DOMAIN achievements' :
            achievements[id].unlocked => achievements'[id].unlocked]_vars

\* A reward granted in the last call took coins or pride from below the
\* target of the condition up to it.
C10_Brought(condition) ==
    \E k \in 1..Len(last.grants) :
        \/ /\ condition.type = "ReachCoins"
           /\ last.grants[k].coinsBefore < condition.targetValue
           /\ condition.targetValue <= last.grants[k].coinsAfter
        \/ /\ condition.type = "ReachPride"
           /\ last.grants[k].prideBefore < condition.targetValue
           /\ condition.targetValue <= last.grants[k].prideAfter

\* C10: when a handler call has returned, every cached achievement all of
\* whose condition targets were reached through rewards granted during the
\* call is unlocked (rewards never change the level).
C10_RewardCascadeUnlocks ==
    last.outcome = "ok" =>
        \A id \in DOMAIN achievements :
            (/\ achievements[id].conditions # <<>>
             /\ \A i \in 1..Len(achievements[id].conditions) :
                    C10_Brought(achievements[id].conditions[i]))
                => achievements[id].unlocked

\* C11: markTaskCompleted on a task whose completed flag is set returns
\* normally without issuing any statement and leaves the ledger (in memory
\* and persisted), the task cache, the per-type completion counters, the
\* achievement cache and the transaction state (depth, lock) as they were.
C11_CompletedTaskIsNoOp ==
    [][(/\ last'.op = "markTaskCompleted"
        /\ last'.id \in DOMAIN tasks
        /\ tasks[last'.id].completed)
        => (/\ last'.outcome = "ok"
            /\ last'.stmts = <<>>
            /\ last'.grants = <<>>
            /\ activeUser' = activeUser
            /\ tasks' = tasks
            /\ completionStats' = completionStats
            /\ achievements' = achievements
            /\ db' = db
            /\ hung' = hung
            /\ effects' = effects)]_vars

\* A completion call returned without a statement on a completed task that
\* had earned its reward.
C11_Witness ==
    /\ last.op = "markTaskCompleted"
    /\ last.outcome = "ok"
    /\ last.stmts = <<>>
    /\ tasks[last.id].completed
    /\ activeUser[1].progress.totalTasksCompleted > 0
    /\ activeUser[1].coins > 0

-----------------------------------------------------------------------------
(* Specification SpecReward: one task of any kind, completed once *)

MaxStars == 3         \* difficulty stars of the task
MaxStreak == 2        \* bonus streak the task starts with

TaskTypes == {"Daily", "Weekly", "Semester", "Custom"}
CoinRewards == {0, 50, 100}
GrowthRewards == {0, 50}

\* The session of the preset account with one task in the table and in the
\* cache of TaskManager.
InitReward ==
    \E type \in TaskTypes, stars \in 1..MaxStars, streak \in 0..MaxStreak,
       coinReward \in CoinRewards, growthReward \in GrowthRewards :
        /\ db = OpenDatabase(Tables(UserRow(0),
                << TaskToRecord(Task(1, type, stars, coinReward,
                                     growthReward, streak)) >>,
                <<>>, <<>>, <<>>))
        /\ activeUser = << hydrateUser(UserRow(0)) >>
        /\ tasks = << Task(1, type, stars, coinReward, growthReward, streak) >>
        /\ completionStats =
               [Daily |-> 0, Weekly |-> 0, Semester |-> 0, Custom |-> 0]
        /\ achievements = <<>>
        /\ hung = FALSE
        /\ effects = <<>>
        /\ now = 0
        /\ last = NoCall

\* The completion request of the task view, without a storage fault.
CompleteTask ==
    \E order \in Orders :
      \E m \in {markTaskCompleted(MachineWith(0, FALSE, order, "proceed"), 1)} :
        /\ Ready
        /\ achievements # <<>>
        /\ Ran("markTaskCompleted", m, 1, 0)

NextReward == LoadAchievements \/ CompleteTask

SpecReward == InitReward /\ [][NextReward]_vars

-----------------------------------------------------------------------------
(* Claims about the reward of a task (checked under SpecReward) *)

\* C12: a successful completion of a task that unlocks no achievement adds
\* max(0, round(coinReward * f)) coins and max(0, round(growthReward * f))
\* growth points, f = (1 + (stars - 1) * 0.15, + 0.35 Semester, + 0.10 Weekly)
\* * (1 + bonusStreak * 0.05), and adds the top-up of the type to the
\* attributes: Daily execution + 1, Weekly social + stars, Semester knowledge
\* + 2 * stars and perseverance + stars.
C12_RewardFormula ==
    [][(/\ last'.op = "markTaskCompleted"
        /\ last'.outcome = "ok"
        /\ ~tasks[1].completed
        /\ last'.grants = <<>>)
        => (/\ activeUser'[1].coins = activeUser[1].coins
                + Max(0, RoundExact(tasks[1].coinReward
                        * difficultyFactor(tasks[1]) * streakFactor(tasks[1])))
            /\ activeUser'[1].growthPoints = activeUser[1].growthPoints
                + Max(0, RoundExact(tasks[1].growthReward
                        * difficultyFactor(tasks[1]) * streakFactor(tasks[1])))
            /\ activeUser'[1].attributes =
                   [activeUser[1].attributes EXCEPT
                       !.execution =
                           IF tasks[1].type = "Daily" THEN @ + 1 ELSE @,
                       !.social =
                           IF tasks[1].type = "Weekly"
                           THEN @ + tasks[1].difficultyStars ELSE @,
                       !.knowledge =
                           IF tasks[1].type = "Semester"
                           THEN @ + 2 * tasks[1].difficultyStars ELSE @,
                       !.perseverance =
                           IF tasks[1].type = "Semester"
                           THEN @ + tasks[1].difficultyStars ELSE @])]_vars

-----------------------------------------------------------------------------
(* Specification SpecLedger: the operations of the ledger *)

MaxGrowth == 200      \* growth points are added up to this total
MaxRefund == 1        \* distributions stop once the spent counter is at -MaxRefund

\* UserManager::distributeAttributePoints
distributeAttributePoints(m, distribution) ==
    IF m.user = <<>> THEN Throw(m)
    ELSE Bind(m.user[1].attributes.pride, LAMBDA previousPride :
        Then(Then(distributeAttributes(m, distribution), persistUser),
             LAMBDA s : IF s.user[1].attributes.pride # previousPride
                        THEN onPrideChanged(Emit(s, "prideChanged"),
                                            s.user[1].attributes.pride)
                        ELSE s))

\* UserManager::refreshFromDatabase
reloadActiveUser(m) ==
    IF m.user = <<>> THEN m
    ELSE Then(ReadStep(m),
              LAMBDA s : [s EXCEPT !.user = << hydrateUser(getUserByName(s)) >>])

\* Arguments of the calls.
GrowthDeltas == {-5, 100}
GrowthValues == {-1, 400}
LevelValues == {0, 3}
Bonuses == { [ZeroAttributes EXCEPT !.execution = 600] }
Plans ==
    { [ZeroAttributes EXCEPT !.pride = 4],
      [ZeroAttributes EXCEPT !.pride = -4] }

\* The preset account is logged in; main() then refreshes the achievements.
InitLedger ==
    /\ db = OpenDatabase(Tables(UserRow(0), <<>>, <<>>, <<>>, <<>>))
    /\ activeUser = << hydrateUser(UserRow(0)) >>
    /\ tasks = <<>>
    /\ completionStats = <<>>
    /\ achievements = <<>>
    /\ hung = FALSE
    /\ effects = <<>>
    /\ now = 0
    /\ last = NoCall

\* A method of User called on the session object: nothing is persisted.
OnSession(op, user) ==
    /\ Ready
    /\ achievements # <<>>
    /\ activeUser # <<>>
    /\ activeUser' = << user >>
    /\ last' = [NoCall EXCEPT !.op = op, !.rewarded = last.rewarded,
                              !.again = last.again]
    /\ UNCHANGED <<db, tasks, completionStats, achievements, hung,
                    effects, now>>

AddGrowthPoints ==
    \E delta \in GrowthDeltas :
        /\ activeUser # <<>>
        /\ activeUser[1].growthPoints + delta <= MaxGrowth
        /\ OnSession("addGrowthPoints", addGrowthPoints(activeUser[1], delta))

SetGrowthPoints ==
    \E points \in GrowthValues :
        /\ activeUser # <<>>
        /\ OnSession("setGrowthPoints", setGrowthPoints(activeUser[1], points))

SetLevel ==
    \E level \in LevelValues :
        /\ activeUser # <<>>
        /\ OnSession("setLevel", setLevel(activeUser[1], level))

ApplyAttributeBonus ==
    \E bonus \in Bonuses :
        /\ activeUser # <<>>
        /\ OnSession("applyAttributeBonus",
                     applyAttributeBonus(activeUser[1], bonus))

DistributeAttributePoints ==
    \E distribution \in Plans, order \in Orders, fail \in BOOLEAN :
      \E m \in {distributeAttributePoints(
                    MachineWith(FirstCall(fail), FALSE, order, "proceed"),
                    distribution)} :
        /\ Ready
        /\ achievements # <<>>
        /\ activeUser # <<>>
        /\ activeUser[1].progress.attributePointsSpent + MaxRefund > 0
        /\ Ran("distributeAttributePoints", [m EXCEPT !.stmts = <<>>], 0,
               totalPoints(distribution))

ReloadActiveUser ==
    \E m \in {reloadActiveUser(Machine(0, FALSE))} :
        /\ Ready
        /\ achievements # <<>>
        /\ RanAch("refreshFromDatabase", m)

NextLedger ==
    \/ LoadAchievements
    \/ AddGrowthPoints
    \/ SetGrowthPoints
    \/ SetLevel
    \/ ApplyAttributeBonus
    \/ DistributeAttributePoints
    \/ ReloadActiveUser

SpecLedger == InitLedger /\ [][NextLedger]_vars

-----------------------------------------------------------------------------
(* Claims about the ledger (checked under SpecLedger) *)

\* 1 + floor(sqrt(g / 100)) for g >= 0.
C13_Level(g) ==
    1 + (CHOOSE k \in 0..g : k * k * 100 <= g /\ (k + 1) * (k + 1) * 100 > g)

\* The function of the code is the curve, and it never decreases.
C13_Curve ==
    /\ \A g \in 0..(2 * MaxGrowth + 100) :
           computeLevelFromGrowth(g) = C13_Level(g)
    /\ \A g \in 1..(2 * MaxGrowth + 100) :
           computeLevelFromGrowth(g - 1) <= computeLevelFromGrowth(g)
    /\ computeLevelFromGrowth(0) = 1
    /\ computeLevelFromGrowth(100) = 2
    /\ computeLevelFromGrowth(400) = 3

\* C13: in every reachable state of the session ledger, whatever sequence of
\* refresh from the store, addGrowthPoints, setGrowthPoints, setLevel and
\* distributions led to it, level = 1 + floor(sqrt(growthPoints / 100)) and
\* level >= 1; the curve gives 1, 2, 3 at 0, 100, 400 and never decreases.
C13_LevelFollowsGrowth ==
    /\ C13_Curve
    /\ activeUser # <<>> =>
           /\ activeUser[1].level >= 1
           /\ activeUser[1].growthPoints >= 0
           /\ activeUser[1].level = C13_Level(activeUser[1].growthPoints)

\* C15: after any bonus application (applyAttributeBonus, distributeAttributes
\* and the rewards that go through them), each of the six attributes of the
\* session ledger lies in 0..999.
C15_AttributesInRange ==
    activeUser # <<>> =>
        \A k \in DOMAIN activeUser[1].attributes :
            /\ activeUser[1].attributes[k] >= 0
            /\ activeUser[1].attributes[k] <= 999

\* Two bonuses of 600 were applied: the sum 1200 was cut to 999.
C15_Witness ==
    /\ last.op = "applyAttributeBonus"
    /\ activeUser # <<>>
    /\ activeUser[1].attributes.execution = 999

\* floor(growthPoints / 50) - attributePointsSpent
C16_Budget(user) ==
    user.growthPoints \div 50 - user.progress.attributePointsSpent

\* C16: a distribution whose total exceeds floor(growth / 50) - spent throws
\* and leaves the session ledger as it was; one within the budget that
\* returns raises attributePointsSpent by the total; and a distribution made
\* with 0 <= spent <= floor(growth / 50) leaves the counter in that range.
C16_DistributionWithinBudget ==
    [][(last'.op = "distributeAttributePoints" /\ activeUser # <<>>) =>
          /\ last'.qty > C16_Budget(activeUser[1]) =>
                /\ last'.outcome = "throw"
                /\ activeUser' = activeUser
          /\ (last'.qty <= C16_Budget(activeUser[1]) /\ last'.outcome = "ok") =>
                activeUser'[1].progress.attributePointsSpent =
                    activeUser[1].progress.attributePointsSpent + last'.qty
          /\ (/\ activeUser[1].progress.attributePointsSpent >= 0
              /\ C16_Budget(activeUser[1]) >= 0) =>
                /\ activeUser'[1].progress.attributePointsSpent >= 0
                /\ C16_Budget(activeUser'[1]) >= 0]_vars

-----------------------------------------------------------------------------
(* Specification SpecCoins: the balance of the session *)

MaxCoins == 120       \* coins are added up to this balance

CoinGains == {-1, 10, 60}
CoinAmounts == {-1, 0, 10, 60, 200}

AddCoins ==
    \E amount \in CoinGains :
        /\ activeUser # <<>>
        /\ activeUser[1].coins + amount <= MaxCoins
        /\ OnSession("addCoins", addCoins(activeUser[1], amount))

SpendCoins ==
    \E amount \in CoinAmounts :
      \E m \in {spendCoins(Machine(0, FALSE), amount)} :
        /\ Ready
        /\ achievements # <<>>
        /\ activeUser # <<>>
        /\ activeUser' = m.user
        /\ last' = [Observe("spendCoins", Outcome(m), "", m, 0, amount)
                        EXCEPT !.stmts = <<>>]
        /\ UNCHANGED <<db, tasks, completionStats, achievements, hung,
                    effects, now>>

SaveActiveUser ==
    \E fail \in BOOLEAN :
      \E m \in {saveActiveUser(Machine(FirstCall(fail), FALSE))} :
        /\ Ready
        /\ achievements # <<>>
        /\ RanAch("saveActiveUser", m)

NextCoins ==
    \/ LoadAchievements
    \/ AddCoins
    \/ SpendCoins
    \/ SaveActiveUser
    \/ ReloadActiveUser

SpecCoins == InitLedger /\ [][NextCoins]_vars

-----------------------------------------------------------------------------
(* Claims about the balance (checked under SpecCoins) *)

\* C14: the balance of the session and the persisted currency are never
\* negative; spendCoins(amount) with amount > balance throws and leaves the
\* balance as it was, with 0 < amount <= balance it returns and lowers the
\* balance by exactly amount, and with amount <= 0 it changes nothing.
C14_SpendWithinBalance ==
    /\ activeUser[1].coins >= 0
    /\ [][/\ activeUser' # <<>> => activeUser'[1].coins >= 0
          /\ db'.cur.user.currency >= 0
          /\ (last'.op = "spendCoins" /\ activeUser # <<>>) =>
                /\ last'.qty > activeUser[1].coins =>
                      /\ last'.outcome = "throw"
                      /\ activeUser' = activeUser
                /\ (0 < last'.qty /\ last'.qty <= activeUser[1].coins) =>
                      /\ last'.outcome = "ok"
                      /\ activeUser' = [activeUser EXCEPT
                                           ![1].coins = @ - last'.qty]
                /\ last'.qty <= 0 =>
                      /\ last'.outcome = "ok"
                      /\ activeUser' = activeUser]_vars

\* A spendCoins of more than a positive balance was refused.
C14_Witness ==
    /\ last.op = "spendCoins"
    /\ last.outcome = "throw"
    /\ activeUser # <<>>
    /\ activeUser[1].coins > 0
    /\ last.qty > activeUser[1].coins

-----------------------------------------------------------------------------
(* Claims about successful purchases (checked under SpecShop) *)

\* The q rows a purchase of the item appends to user_inventory.
C17_NewRows(itemId, quantity) ==
    [i \in 1..quantity |->
        [itemId |-> itemId, quantity |-> 1, usedQuantity |-> 0,
         status |-> "Unused"]]

C17_SessionEffect ==
    [][(last'.op = "purchaseItem" /\ last'.outcome = "success") =>
          /\ activeUser # <<>> /\ activeUser' # <<>>
          /\ activeUser'[1] =
                [activeUser[1] EXCEPT
                    !.coins = @ - C5_Price(last'.id) * last'.qty]
          /\ db'.cur.user.currency = activeUser'[1].coins
          /\ db'.cur.inv = db.cur.inv \o C17_NewRows(last'.id, last'.qty)]_vars

\* C18: a purchaseItem call for an item with purchaseLimit > 0 reports
\* success only if the quantity already owned plus the quantity requested is
\* at most the limit, and in every state reached the quantity of such an
\* item in the inventory is at most its limit.
C18_PurchaseLimitHolds ==
    [][/\ (/\ last'.op = "purchaseItem" /\ last'.outcome = "success"
           /\ db.cur.items[last'.id].purchaseLimit > 0) =>
              C5_Owned(last'.id) + last'.qty
                  <= db.cur.items[last'.id].purchaseLimit
       /\ \A itemId \in 1..Len(db'.cur.items) :
              db'.cur.items[itemId].purchaseLimit > 0 =>
                  SumQuantity(db'.cur.inv, itemId)
                      <= db'.cur.items[itemId].purchaseLimit]_vars

\* The limited item is owned up to its limit and a further purchase of it
\* was refused for the limit.
C18_Witness ==
    /\ last.op = "purchaseItem"
    /\ last.outcome = "invalid"
    /\ last.reason = "Limit"
    /\ db.cur.items[last.id].purchaseLimit > 0
    /\ C5_Owned(last.id) = db.cur.items[last.id].purchaseLimit

\* The reason of the first check that fails, "" when none does, taking the
\* checks in the order: session, item exists, item available, quantity,
\* level, funds, limit.
C19_FirstFailing(itemId, quantity) ==
    IF activeUser = <<>> THEN "NoSession"
    ELSE IF ~C5_Known(itemId) THEN "NoItem"
    ELSE IF ~db.cur.items[itemId].available THEN "Unavailable"
    ELSE IF quantity <= 0 THEN "Quantity"
    ELSE IF activeUser[1].level < db.cur.items[itemId].levelRequirement
    THEN "Level"
    ELSE IF C5_Price(itemId) * quantity > activeUser[1].coins THEN "Funds"
    ELSE IF /\ db.cur.items[itemId].purchaseLimit > 0
            /\ C5_Owned(itemId) + quantity > db.cur.items[itemId].purchaseLimit
    THEN "Limit"
    ELSE ""

\* The same with the quantity checked before the availability.
C19_FirstFailingQuantityFirst(itemId, quantity) ==
    IF activeUser # <<>> /\ C5_Known(itemId) /\ quantity <= 0 THEN "Quantity"
    ELSE C19_FirstFailing(itemId, quantity)

\* C19: a purchaseItem call that is refused gives the reason of the first
\* failing check in the order session present, item exists and is
\* available, quantity > 0, level requirement, funds, purchase limit.
C19_ReasonOfFirstFailingCheck ==
    [][(last'.op = "purchaseItem" /\ last'.outcome = "invalid") =>
          last'.reason = C19_FirstFailing(last'.id, last'.qty)]_vars

\* The order of the checks with quantity > 0 before the availability.
C19_ReasonQuantityFirst ==
    [][(last'.op = "purchaseItem" /\ last'.outcome = "invalid") =>
          last'.reason = C19_FirstFailingQuantityFirst(last'.id, last'.qty)]_vars

-----------------------------------------------------------------------------
(* Specification SpecQuota: custom achievements created around the start of
   a calendar month, on a machine whose time zone is ahead of UTC *)

MaxRows == 5   \* custom achievements created

\* The readings of the clock during the session. The local date is in
\* month 2 throughout; UTC is behind the local time by the offset of the
\* zone, so it is still in month 1 during the first hours and in month 2
\* afterwards.
Clocks == { [utc |-> 1, local |-> 2], [utc |-> 2, local |-> 2] }

MachineAt(clock) ==
    [Machine(0, FALSE) EXCEPT !.utcMonth = clock.utc,
                              !.localMonth = clock.local]

\* The drafts submitted: the rewarded counter and the goal without reward.
QuotaDrafts == {1, 3}

\* createCustomAchievement at a reading of the clock that is not earlier
\* than the timestamp of any row created before.
CreateCustomAchievementAt ==
    \E d \in QuotaDrafts, clock \in Clocks :
      \E m \in {createCustomAchievement(MachineAt(clock), Drafts[d])} :
        /\ Ready
        /\ achievements # <<>>
        /\ Cardinality({i \in 1..Len(db.cur.achs) :
                            db.cur.achs[i].type = "Custom"}) < MaxRows
        /\ \A i \in 1..Len(db.cur.achs) :
                db.cur.achs[i].type = "Custom" =>
                    db.cur.achs[i].createdAt <= clock.utc
        /\ Ran("createCustomAchievement", [m EXCEPT !.stmts = <<>>],
               d, clock.utc)

NextQuota == LoadAchievements \/ CreateCustomAchievementAt

SpecQuota == InitAch /\ [][NextQuota]_vars

\* The rewarded custom achievements of the owner in the store. Under
\* SpecQuota each of them was created in the current calendar month.
C20_RewardedThisMonth ==
    {i \in 1..Len(db.cur.achs) :
        /\ db.cur.achs[i].type = "Custom"
        /\ db.cur.achs[i].rewardType = "WithReward"}

\* Those of them whose stored UTC timestamp lies in the month of the local
\* date.
C20_RewardedStampedThisMonth ==
    {i \in C20_RewardedThisMonth : db.cur.achs[i].createdAt = 2}

\* C20: when the owner already has 2 rewarded custom achievements created in
\* the current calendar month, createCustomAchievement of a further rewarded
\* one fails and leaves the cache and the store unchanged, while
\* createCustomAchievement of one without reward succeeds.
C20_MonthlyQuota ==
    [][(/\ last'.op = "createCustomAchievement"
        /\ Cardinality(C20_RewardedThisMonth) >= 2) =>
          IF Drafts[last'.id].rewardType = "WithReward"
          THEN /\ last'.outcome = "throw"
               /\ achievements' = achievements
               /\ db' = db
          ELSE /\ last'.outcome = "ok"
               /\ Len(db'.cur.achs) = Len(db.cur.achs) + 1]_vars

\* The same quota counted over the rows whose stored UTC timestamp lies in
\* the month of the local date.
C20_QuotaOfStampedMonth ==
    [][(/\ last'.op = "createCustomAchievement"
        /\ Cardinality(C20_RewardedStampedThisMonth) >= 2) =>
          IF Drafts[last'.id].rewardType = "WithReward"
          THEN /\ last'.outcome = "throw"
               /\ achievements' = achievements
               /\ db' = db
          ELSE /\ last'.outcome = "ok"
               /\ Len(db'.cur.achs) = Len(db.cur.achs) + 1]_vars

\* The third rewarded creation was refused after two were stored with a
\* timestamp in the month of the local date.
C20_Refused ==
    /\ last.op = "createCustomAchievement"
    /\ last.outcome = "throw"
    /\ Cardinality(C20_RewardedStampedThisMonth) = 2

-----------------------------------------------------------------------------
(* Specification SpecEdit: achievements are created, edited and deleted *)

MaxEdited == 2    \* rows inserted after the built-in ones
MaxDeleted == 1   \* rows deleted

\* The drafts submitted: the rewarded counter and the goal without reward.
EditDrafts == {1, 3}

CreateAchievementToEdit ==
    \E d \in EditDrafts :
      \E m \in {createCustomAchievement(Machine(0, FALSE), Drafts[d])} :
        /\ Ready
        /\ achievements # <<>>
        /\ Len(db.cur.achs) < Len(buildSystemTemplates) + MaxEdited
        /\ Ran("createCustomAchievement", [m EXCEPT !.stmts = <<>>], 0, d)

\* The object passed to updateCustomAchievement: the cached copy as
\* achievementById returned it (d = 0), or a newly constructed one that
\* carries the id and the fields of a draft, with the type set to Custom or
\* left at the default of the constructor.
EditedObject(id, d, type) ==
    IF d = 0 THEN achievements[id]
    ELSE [Drafts[d] EXCEPT !.id = id, !.type = type]

EditAchievement ==
    \E id \in DOMAIN achievements, d \in {0} \cup EditDrafts,
       type \in {"Custom", "System"}, fail \in BOOLEAN :
      \E m \in {updateCustomAchievement(Machine(FirstCall(fail), FALSE),
                                        EditedObject(id, d, type))} :
        /\ Ready
        /\ d = 0 => type = "Custom"
        /\ Ran("updateCustomAchievement", [m EXCEPT !.stmts = <<>>], id, d)

\* Any cached id, or the id after the last row.
DeleteCustomAchievement ==
    \E id \in DOMAIN achievements \cup {Len(db.cur.achs) + 1},
       fail \in BOOLEAN :
      \E m \in {deleteCustomAchievement(Machine(FirstCall(fail), FALSE), id)} :
        /\ Ready
        /\ achievements # <<>>
        /\ Cardinality({i \in 1..Len(db.cur.achs) :
                            db.cur.achs[i].type = "Deleted"}) < MaxDeleted
        /\ Ran("deleteCustomAchievement", [m EXCEPT !.stmts = <<>>], id, 0)

NextEdit ==
    \/ LoadAchievements
    \/ CreateAchievementToEdit
    \/ EditAchievement
    \/ DeleteCustomAchievement

SpecEdit == InitAch /\ [][NextEdit]_vars

\* C21: updateCustomAchievement and deleteCustomAchievement fail whenever
\* the target is a System achievement, and leave that achievement unchanged
\* in the cache and in the store.
C21_SystemAchievementsImmutable ==
    [][(/\ last'.op \in {"updateCustomAchievement", "deleteCustomAchievement"}
        /\ last'.id \in DOMAIN achievements
        /\ achievements[last'.id].type = "System") =>
          /\ last'.outcome = "throw"
          /\ last'.id \in DOMAIN achievements'
          /\ achievements'[last'.id] = achievements[last'.id]
          /\ db'.cur.achs = db.cur.achs]_vars

\* An update aimed at a System achievement was refused, with an object that
\* differs from the cached one.
C21_Witness ==
    /\ last.op = "updateCustomAchievement"
    /\ last.outcome = "throw"
    /\ last.id \in DOMAIN achievements
    /\ achievements[last.id].type = "System"
    /\ last.qty > 0
    /\ Drafts[last.qty].name # achievements[last.id].name

-----------------------------------------------------------------------------
(* Specification SpecBag: lucky bags are rolled *)

MaxRewards == 3   \* rewards in the list of a lucky bag
Resolution == 8   \* the random value is draw / Resolution, draw < Resolution

\* Probabilities in quarters: with them and with random values in eighths
\* every sum and product of rollLuckyBag is exact in binary64.
Probabilities == {-1, 0, 1, 2, 6}

\* ShopItem::LuckyBagReward: a reward of coins; the amount tells the rewards
\* of a list apart.
LuckyBagReward(amount, probability) ==
    [type |-> "Coins", amount |-> amount, probability |-> probability,
     referenceItemId |-> -1]

RECURSIVE SumProbability(_)
SumProbability(rewards) ==
    IF rewards = <<>> THEN 0
    ELSE Head(rewards).probability + SumProbability(Tail(rewards))

RECURSIVE SelectReward(_, _, _, _, _)
\* The loop over the rewards: the first one whose cumulated probability
\* reaches the target (scale = 1 when the target is the random value
\* multiplied by the total, = 0 when it is the random value itself); the
\* default-constructed reward when none does. The comparison is made in
\* units of 1 / (4 * Resolution).
SelectReward(rewards, draw, total, scaled, cursor) ==
    IF rewards = <<>> THEN LuckyBagReward(0, 0)
    ELSE IF (IF scaled THEN draw * total ELSE draw * 4)
                <= (cursor + Head(rewards).probability) * Resolution
    THEN Head(rewards)
    ELSE SelectReward(Tail(rewards), draw, total, scaled,
                      cursor + Head(rewards).probability)

\* A roll whose target is the random value itself and that keeps whatever
\* the loop selected.
rollLuckyBag_unscaled(luckyBag, draw) ==
    IF luckyBag.luckyRewards = <<>>
    THEN LuckyBagReward(kThreeStarRewardBaseline, 4)
    ELSE SelectReward(luckyBag.luckyRewards, draw, 0, FALSE, 0)

\* ShopManager::rollLuckyBag, the reward of the outcome.
rollLuckyBag(luckyBag, draw) ==
    IF luckyBag.luckyRewards = <<>>
    THEN LuckyBagReward(kThreeStarRewardBaseline, 4)
    ELSE Bind(SelectReward(luckyBag.luckyRewards, draw,
                           SumProbability(luckyBag.luckyRewards),
                           SumProbability(luckyBag.luckyRewards) > 0, 0),
        LAMBDA selected :
            IF selected.probability <= 0
            THEN luckyBag.luckyRewards[Len(luckyBag.luckyRewards)]
            ELSE selected)

LuckyBag(rewards) ==
    [PropItem("None", 0, TRUE, 1) EXCEPT
        !.id = 1, !.itemType = "LuckyBag", !.luckyRewards = rewards]

\* The shop holds one lucky bag with any list of up to MaxRewards rewards.
InitBag ==
    \E n \in 0..MaxRewards :
      \E probability \in [1..n -> Probabilities] :
        /\ db = OpenDatabase(Tables(UserRow(0), <<>>, <<>>, <<>>,
                << LuckyBag([i \in 1..n |->
                        LuckyBagReward(10 * i, probability[i])]) >>))
        /\ activeUser = << hydrateUser(UserRow(0)) >>
        /\ tasks = <<>>
        /\ completionStats = <<>>
        /\ achievements = <<>>
        /\ hung = FALSE
        /\ effects = <<>>
        /\ now = 0
        /\ last = NoCall

RollLuckyBag ==
    \E draw \in 0..(Resolution - 1) :
        /\ last' = Observe("rollLuckyBag", "ok", "",
                           [Machine(0, FALSE) EXCEPT
                                !.ret = rollLuckyBag(db.cur.items[1], draw)],
                           1, draw)
        /\ UNCHANGED << db, activeUser, tasks, completionStats, achievements,
                        hung, effects, now >>

NextBag == RollLuckyBag

SpecBag == InitBag /\ [][NextBag]_vars

\* C22: for a non-empty reward list whose probabilities sum to a positive
\* value (below, equal to or above 1) and any random value in [0,1),
\* rollLuckyBag returns one reward, and it is an element of the list.
C22_LuckyBagResolves ==
    (/\ last.op = "rollLuckyBag"
     /\ db.cur.items[1].luckyRewards # <<>>
     /\ SumProbability(db.cur.items[1].luckyRewards) > 0) =>
        \E i \in 1..Len(db.cur.items[1].luckyRewards) :
            last.ret = db.cur.items[1].luckyRewards[i]

\* A roll on two rewards of probability 1/4 each with the highest random
\* value: the target is scaled to the total 1/2 and the second reward is
\* returned.
C22_Witness ==
    /\ last.op = "rollLuckyBag"
    /\ Len(db.cur.items[1].luckyRewards) = 2
    /\ db.cur.items[1].luckyRewards[1].probability = 1
    /\ db.cur.items[1].luckyRewards[2].probability = 1
    /\ last.qty = Resolution - 1
    /\ last.ret = db.cur.items[1].luckyRewards[2]

-----------------------------------------------------------------------------
(* InventoryManager: the effects of the user *)

kMaxEffectStack == 3

\* InventoryManager::ActiveEffect
ActiveEffect(type, stack, expiresAt) ==
    [type |-> type, stack |-> stack, expiresAt |-> expiresAt]

\* The entries that expired are erased (an empty bucket is no bucket).
cleanupExpiredEffectsLocked(m) ==
    [m EXCEPT !.effects =
        SelectSeq(@, LAMBDA effect : ~(effect.expiresAt <= m.now))]

cleanupAllEffectsLocked(m) == cleanupExpiredEffectsLocked(m)

\* The position of the first entry of the bucket that satisfies Test, 0
\* when there is none.
FirstEffect(bucket, Test(_)) ==
    IF \E i \in 1..Len(bucket) : Test(bucket[i])
    THEN CHOOSE i \in 1..Len(bucket) :
            /\ Test(bucket[i])
            /\ \A j \in 1..(i - 1) : ~Test(bucket[j])
    ELSE 0

\* A registration that adds to the stack without a cap.
registerEffectLocked_uncapped(m, type, durationMinutes, stackDelta) ==
    Bind(cleanupExpiredEffectsLocked(m), LAMBDA s :
      Bind(FirstEffect(s.effects, LAMBDA effect : effect.type = type),
        LAMBDA it :
          Bind(IF durationMinutes > 0 THEN durationMinutes ELSE 1440,
            LAMBDA duration :
              IF it = 0
              THEN [s EXCEPT !.effects = Append(@,
                        ActiveEffect(type, stackDelta, s.now + duration))]
              ELSE [s EXCEPT
                        !.effects[it].stack = @ + stackDelta,
                        !.effects[it].expiresAt = @ + duration])))

registerEffectLocked(m, type, durationMinutes, stackDelta) ==
    Bind(cleanupExpiredEffectsLocked(m), LAMBDA s :
      Bind(FirstEffect(s.effects, LAMBDA effect : effect.type = type),
        LAMBDA it :
          Bind(IF durationMinutes > 0 THEN durationMinutes ELSE 1440,
            LAMBDA duration :
              IF it = 0
              THEN [s EXCEPT !.effects = Append(@,
                        ActiveEffect(type, Min(stackDelta, kMaxEffectStack),
                                     s.now + duration))]
              ELSE [s EXCEPT
                        !.effects[it].stack =
                            Min(@ + stackDelta, kMaxEffectStack),
                        !.effects[it].expiresAt = @ + duration])))

\* A consumption that keeps the expiry of an entry it empties.
consumeEffectToken_keep(m, type) ==
    Bind(cleanupExpiredEffectsLocked(m), LAMBDA s :
      Bind(FirstEffect(s.effects,
                       LAMBDA effect : effect.type = type /\ effect.stack > 0),
        LAMBDA it :
          IF it = 0 THEN [s EXCEPT !.ret = FALSE]
          ELSE [s EXCEPT !.ret = TRUE, !.effects[it].stack = @ - 1]))

consumeEffectToken(m, type) ==
    Bind(cleanupExpiredEffectsLocked(m), LAMBDA s :
      Bind(FirstEffect(s.effects,
                       LAMBDA effect : effect.type = type /\ effect.stack > 0),
        LAMBDA it :
          IF it = 0 THEN [s EXCEPT !.ret = FALSE]
          ELSE [s EXCEPT
                    !.ret = TRUE,
                    !.effects[it].stack = @ - 1,
                    !.effects[it].expiresAt =
                        IF s.effects[it].stack - 1 = 0 THEN s.now ELSE @]))

hasEffectToken(m, type) ==
    [m EXCEPT !.ret =
        \E i \in 1..Len(m.effects) :
            /\ m.effects[i].type = type
            /\ m.effects[i].expiresAt > m.now
            /\ m.effects[i].stack > 0]

doubleExpMultiplier(m) ==
    Bind(FirstEffect(m.effects, LAMBDA effect :
            effect.type = "DoubleExpCard" /\ effect.expiresAt > m.now),
        LAMBDA it :
            [m EXCEPT !.ret = IF it = 0 THEN 1 ELSE 1 + m.effects[it].stack])

-----------------------------------------------------------------------------
(* Specification SpecRegister: registerEffectLocked and the token calls,
   with any stackDelta and duration *)

MaxExpiry == 2880   \* no expiry is registered beyond this minute
MaxDebt == 1        \* no stack is registered below -MaxDebt

EffectTypes == {"DoubleExpCard", "ForgivenessCoupon"}
StackDeltas == {-1, 0, 1, 2, 5}
Durations == {0, 720}
Instants == {0, 720, 1440}

\* The stack and the expiry a registration would leave.
AfterRegistration(type, durationMinutes, stackDelta) ==
    Bind(registerEffectLocked(Machine(0, FALSE), type, durationMinutes,
                              stackDelta).effects,
         LAMBDA bucket :
            bucket[FirstEffect(bucket, LAMBDA effect : effect.type = type)])

RegisterEffect ==
    \E type \in EffectTypes, durationMinutes \in Durations,
       stackDelta \in StackDeltas :
        /\ AfterRegistration(type, durationMinutes, stackDelta).expiresAt
                <= MaxExpiry
        /\ AfterRegistration(type, durationMinutes, stackDelta).stack
                + MaxDebt >= 0
        /\ \E m \in {registerEffectLocked(Machine(0, FALSE), type,
                                          durationMinutes, stackDelta)} :
              Ran("registerEffectLocked", m, stackDelta, durationMinutes)

ConsumeEffectToken ==
    \E type \in EffectTypes :
      \E m \in {consumeEffectToken(Machine(0, FALSE), type)} :
        /\ last' = Observe("consumeEffectToken", "ok", type, m, 0, 0)
        /\ effects' = m.effects
        /\ UNCHANGED <<db, activeUser, tasks, completionStats, achievements,
                       hung, now>>

HasEffectToken ==
    \E type \in EffectTypes :
      \E m \in {hasEffectToken(Machine(0, FALSE), type)} :
        /\ last' = Observe("hasEffectToken", "ok", type, m, 0, 0)
        /\ effects' = m.effects
        /\ UNCHANGED <<db, activeUser, tasks, completionStats, achievements,
                       hung, now>>

DoubleExpMultiplier ==
    \E m \in {doubleExpMultiplier(Machine(0, FALSE))} :
        /\ last' = Observe("doubleExpMultiplier", "ok", "", m, 0, 0)
        /\ effects' = m.effects
        /\ UNCHANGED <<db, activeUser, tasks, completionStats, achievements,
                       hung, now>>

\* Time passes between two calls.
Advance ==
    \E instant \in Instants :
        /\ instant > now
        /\ now' = instant
        /\ last' = Observe("advance", "ok", "", Machine(0, FALSE), 0, instant)
        /\ UNCHANGED <<db, activeUser, tasks, completionStats, achievements,
                       hung, effects>>

NextRegister ==
    \/ RegisterEffect
    \/ ConsumeEffectToken
    \/ HasEffectToken
    \/ DoubleExpMultiplier
    \/ Advance

SpecRegister == InitAch /\ [][NextRegister]_vars

\* Every entry of the bucket has its stack in 0..kMaxEffectStack.
C23_StacksInRange(bucket) ==
    \A i \in 1..Len(bucket) :
        bucket[i].stack >= 0 /\ bucket[i].stack <= kMaxEffectStack

\* What doubleExpMultiplier has to return: 1 + the stack of the live
\* DoubleExpCard entry, 1 when there is none.
C23_Multiplier ==
    IF \E i \in 1..Len(effects) :
            effects[i].type = "DoubleExpCard" /\ effects[i].expiresAt > now
    THEN 1 + effects[CHOOSE i \in 1..Len(effects) :
                        /\ effects[i].type = "DoubleExpCard"
                        /\ effects[i].expiresAt > now].stack
    ELSE 1

-----------------------------------------------------------------------------
(* InventoryManager and ShopManager: the entries of the inventory are used *)

\* InventoryItem::isExpired
isExpired(entry, instant) ==
    entry.expirationTime # <<>> /\ entry.expirationTime[1] < instant

\* InventoryManager::findById: <<>> or the entry read from its row, which
\* carries the id.
findById(m, inventoryId) ==
    IF inventoryId \in 1..Len(m.db.cur.inv)
    THEN << [id |-> inventoryId, row |-> m.db.cur.inv[inventoryId]] >>
    ELSE <<>>

\* UPDATE user_inventory SET ... WHERE id = ?
updateInventoryRecord(m, entry) ==
    IF entry.id < 0 THEN Throw(m)
    ELSE WriteStep(m, IF entry.id \in 1..Len(m.db.cur.inv)
                      THEN [m.db.cur EXCEPT !.inv[entry.id] = entry.row]
                      ELSE m.db.cur)

\* setStatus(Consumed), setUsedQuantity(quantity())
Consumed(entry) ==
    [entry EXCEPT !.row.status = "Consumed",
                  !.row.usedQuantity = entry.row.quantity]

markPhysicalRedeemed(m, entry) == updateInventoryRecord(m, Consumed(entry))

markLuckyBagOpened(m, entry) == updateInventoryRecord(m, Consumed(entry))

\* The effect of the prop is registered with the default stackDelta 1, then
\* the entry is written as consumed.
applyPropEffect(m, item, entry) ==
    Bind(cleanupExpiredEffectsLocked(m), LAMBDA s :
        updateInventoryRecord(
            IF item.propEffectType = "None" THEN s
            ELSE registerEffectLocked(s, item.propEffectType,
                                      item.effectDurationMinutes, 1),
            Consumed(entry)))

RECURSIVE ExpireItems(_, _)
\* The loop of cleanupExpiredItems over the rows that were read.
ExpireItems(m, ids) ==
    IF ids = <<>> THEN m
    ELSE IF \/ m.db.cur.inv[Head(ids)].status = "Expired"
            \/ ~isExpired(findById(m, Head(ids))[1].row, m.now)
    THEN ExpireItems(m, Tail(ids))
    ELSE Then(updateInventoryRecord(m,
                [findById(m, Head(ids))[1] EXCEPT !.row.status = "Expired"]),
              LAMBDA s : ExpireItems(s, Tail(ids)))

cleanupExpiredItems(m) ==
    Then(Then(ReadStep(m), LAMBDA s :
            ExpireItems(s, [i \in 1..Len(s.db.cur.inv) |-> i])),
         cleanupAllEffectsLocked)

\* ShopManager::applyLuckyBagReward for a reward of coins or of growth.
applyLuckyBagReward(m, reward) ==
    IF m.user = <<>> THEN Throw(m)
    ELSE IF reward.type = "Coins"
    THEN saveActiveUser([m EXCEPT !.user[1] = addCoins(@, reward.amount)])
    ELSE IF reward.type = "Growth"
    THEN saveActiveUser([m EXCEPT !.user[1] = addGrowthPoints(@, reward.amount)])
    ELSE m

\* The body of the try block of useInventoryItem.
UseTransaction(m, item, entry, draw) ==
    Bind(beginTransaction(m), LAMBDA s0 :
        Catch(Then(Then(s0, LAMBDA s :
                IF isExpired(entry.row, s.now)
                THEN updateInventoryRecord(s,
                        [entry EXCEPT !.row.status = "Expired"])
                ELSE IF item.itemType = "Physical"
                THEN markPhysicalRedeemed(s, entry)
                ELSE IF item.itemType = "Prop"
                THEN applyPropEffect(s, item, entry)
                ELSE Then(applyLuckyBagReward(s, rollLuckyBag(item, draw)),
                          LAMBDA t : markLuckyBagOpened(t, entry))),
                commitTransaction),
              LAMBDA s : CatchRollback(s, ~s0.exc /\ s0.ret)))

\* ShopManager::useInventoryItem. findItem locks the mutex the handler
\* already holds: relock says what the build makes of that.
useInventoryItem(m, inventoryId, relock, draw) ==
    IF m.user = <<>> THEN [m EXCEPT !.ret = FALSE]
    ELSE Then(ReadStep(m), LAMBDA found :
        IF findById(found, inventoryId) = <<>> THEN [found EXCEPT !.ret = FALSE]
        ELSE IF relock = "block" THEN Block(found)
        ELSE IF relock = "throw" THEN Throw(found)
        ELSE Then(ReadStep(found), LAMBDA s :
            IF getShopItemById(s, findById(s, inventoryId)[1].row.itemId) = <<>>
            THEN [s EXCEPT !.ret = FALSE]
            ELSE Then(UseTransaction(s,
                        getShopItemById(s, findById(s, inventoryId)[1].row.itemId)[1],
                        findById(s, inventoryId)[1], draw),
                      LAMBDA t : [t EXCEPT !.ret = TRUE])))

-----------------------------------------------------------------------------
(* Specification SpecUse: the entries of the inventory are used and expire *)

MaxUseFailAt == 2   \* the persistence call of useInventoryItem that fails
MaxBagCoins == 20   \* lucky bags are opened up to this balance

\* A double experience card of 720 minutes, a physical reward and a lucky
\* bag of two coin rewards.
UseCatalog ==
    << [PropItem("DoubleExpCard", 0, TRUE, 1) EXCEPT
            !.id = 1, !.effectDurationMinutes = 720],
       [PropItem("None", 0, TRUE, 1) EXCEPT !.id = 2, !.itemType = "Physical"],
       [LuckyBag(<< LuckyBagReward(10, 2), LuckyBagReward(20, 2) >>) EXCEPT
            !.id = 3] >>

\* The account is logged in and owns one entry of each item of the catalog,
\* bought at minute 0.
InitInventory(catalog) ==
    /\ db = OpenDatabase(Tables(UserRow(0), <<>>, <<>>,
                [i \in 1..Len(catalog) |->
                    NewEntry([catalog[i] EXCEPT !.id = i], 1, 0)],
                catalog))
    /\ activeUser = << hydrateUser(UserRow(0)) >>
    /\ tasks = <<>>
    /\ completionStats = <<>>
    /\ achievements = <<>>
    /\ hung = FALSE
    /\ effects = <<>>
    /\ now = 0
    /\ last = NoCall

InitUse == InitInventory(UseCatalog)

\* No effect of the bucket expires after MaxExpiry.
WithinExpiry(m) ==
    \A i \in 1..Len(m.effects) : m.effects[i].expiresAt <= MaxExpiry

UseInventoryItem ==
    \E inventoryId \in 1..(Len(db.cur.inv) + 1), relock \in RelockOutcomes,
       draw \in {0, Resolution - 1}, failAt \in 0..MaxUseFailAt :
      \E m \in {useInventoryItem(Machine(failAt, FALSE), inventoryId, relock,
                                 draw)} :
        /\ Ready
        /\ relock # "proceed" => failAt = 0
        /\ draw # 0 =>
              /\ inventoryId \in 1..Len(db.cur.inv)
              /\ db.cur.inv[inventoryId].itemId = 3
        /\ WithinExpiry(m)
        /\ m.user[1].coins <= MaxBagCoins
        /\ Ran("useInventoryItem", [m EXCEPT !.stmts = <<>>], inventoryId,
               failAt)

\* The calls of InventoryManager made on an entry that findById returned,
\* with the item of the entry.
ApplyPropEffect ==
    \E inventoryId \in 1..Len(db.cur.inv), fail \in BOOLEAN :
      \E m \in {applyPropEffect(Machine(FirstCall(fail), FALSE),
                    db.cur.items[db.cur.inv[inventoryId].itemId],
                    findById(Machine(0, FALSE), inventoryId)[1])} :
        /\ Ready
        /\ db.cur.items[db.cur.inv[inventoryId].itemId].itemType = "Prop"
        /\ WithinExpiry(m)
        /\ Ran("applyPropEffect", [m EXCEPT !.stmts = <<>>], inventoryId, 0)

MarkPhysicalRedeemed ==
    \E inventoryId \in 1..Len(db.cur.inv), fail \in BOOLEAN :
      \E m \in {markPhysicalRedeemed(Machine(FirstCall(fail), FALSE),
                    findById(Machine(0, FALSE), inventoryId)[1])} :
        /\ Ready
        /\ db.cur.items[db.cur.inv[inventoryId].itemId].itemType = "Physical"
        /\ Ran("markPhysicalRedeemed", [m EXCEPT !.stmts = <<>>],
               inventoryId, 0)

MarkLuckyBagOpened ==
    \E inventoryId \in 1..Len(db.cur.inv), fail \in BOOLEAN :
      \E m \in {markLuckyBagOpened(Machine(FirstCall(fail), FALSE),
                    findById(Machine(0, FALSE), inventoryId)[1])} :
        /\ Ready
        /\ db.cur.items[db.cur.inv[inventoryId].itemId].itemType = "LuckyBag"
        /\ Ran("markLuckyBagOpened", [m EXCEPT !.stmts = <<>>], inventoryId, 0)

CleanupExpiredItems ==
    \E failAt \in 0..2 :
      \E m \in {cleanupExpiredItems(Machine(failAt, FALSE))} :
        /\ Ready
        /\ Ran("cleanupExpiredItems", [m EXCEPT !.stmts = <<>>], 0, failAt)

NextUse ==
    \/ UseInventoryItem
    \/ ApplyPropEffect
    \/ MarkPhysicalRedeemed
    \/ MarkLuckyBagOpened
    \/ CleanupExpiredItems
    \/ Advance

SpecUse == InitUse /\ [][NextUse]_vars

\* The status of an entry changed in the step.
C25_Changed(i) == db'.cur.inv[i].status # db.cur.inv[i].status

\* C25: under any sequence of useInventoryItem, applyPropEffect,
\* markPhysicalRedeemed, markLuckyBagOpened and cleanupExpiredItems every
\* change of the status of an entry starts from Unused or Active and ends in
\* Active, Consumed or Expired.
C25_StatusOnlyForward ==
    [][\A i \in 1..Len(db.cur.inv) :
          C25_Changed(i) =>
            /\ db.cur.inv[i].status \in {"Unused", "Active"}
            /\ db'.cur.inv[i].status \in {"Active", "Consumed", "Expired"}]_vars

\* The part of C25 that the handlers keep: an entry that is Consumed or
\* Expired never returns to Unused or Active, and no entry is removed.
C25_NeverBackToUnused ==
    [][/\ Len(db'.cur.inv) = Len(db.cur.inv)
       /\ \A i \in 1..Len(db.cur.inv) :
            db.cur.inv[i].status \in {"Consumed", "Expired"} =>
                db'.cur.inv[i].status \in {"Consumed", "Expired"}]_vars

\* A consumed prop whose expiration time has passed was set to Expired by
\* cleanupExpiredItems.
C25_ConsumedThenExpired ==
    /\ last.op = "cleanupExpiredItems"
    /\ last.outcome = "ok"
    /\ \E i \in 1..Len(db.cur.inv) :
          /\ db.cur.inv[i].status = "Expired"
          /\ db.cur.inv[i].usedQuantity = db.cur.inv[i].quantity

-----------------------------------------------------------------------------
(* Specification SpecTokens: effects are registered by props and their
   tokens are consumed *)

\* A double experience card and a forgiveness coupon of 720 minutes each.
TokenCatalog ==
    << [PropItem("DoubleExpCard", 0, TRUE, 1) EXCEPT
            !.id = 1, !.effectDurationMinutes = 720],
       [PropItem("ForgivenessCoupon", 0, TRUE, 1) EXCEPT
            !.id = 2, !.effectDurationMinutes = 720] >>

InitTokens == InitInventory(TokenCatalog)

NextTokens ==
    \/ ApplyPropEffect
    \/ ConsumeEffectToken
    \/ HasEffectToken
    \/ CleanupExpiredItems
    \/ Advance

SpecTokens == InitTokens /\ [][NextTokens]_vars

\* The entries of the bucket that are live: not expired at the clock.
C24_Live(bucket, instant) ==
    SelectSeq(bucket, LAMBDA effect : effect.expiresAt > instant)

\* The positions of the live entries of a type that hold a token.
C24_Tokens(type) ==
    {i \in 1..Len(C24_Live(effects, now)) :
        /\ C24_Live(effects, now)[i].type = type
        /\ C24_Live(effects, now)[i].stack > 0}

\* C24: consumeEffectToken returns true exactly when a live entry of the type
\* holds a token, and then lowers its stack by one and nothing else; an entry
\* lowered to 0 is expired at once, and a consumption or a registration
\* leaves no entry that had expired before it; otherwise consumeEffectToken
\* returns false and changes no stack. So a live entry of stack s that is not
\* registered again yields exactly s tokens. hasEffectToken changes nothing
\* and returns true iff a live entry of the type holds a token.
C24_TokensConsumedOnce ==
    [][/\ last'.op = "consumeEffectToken" =>
            IF C24_Tokens(last'.reason) # {}
            THEN \E i \in C24_Tokens(last'.reason) :
                    /\ last'.ret = TRUE
                    /\ Len(effects') = Len(C24_Live(effects, now))
                    /\ \A j \in 1..Len(effects') :
                          j # i => effects'[j] = C24_Live(effects, now)[j]
                    /\ effects'[i].type = last'.reason
                    /\ effects'[i].stack = C24_Live(effects, now)[i].stack - 1
                    /\ IF effects'[i].stack = 0
                       THEN effects'[i].expiresAt <= now'
                       ELSE effects'[i].expiresAt
                                = C24_Live(effects, now)[i].expiresAt
            ELSE /\ last'.ret = FALSE
                 /\ effects' = C24_Live(effects, now)
       /\ last'.op = "applyPropEffect" => C24_Live(effects', now') = effects'
       /\ last'.op = "hasEffectToken" =>
            /\ effects' = effects
            /\ last'.ret = (C24_Tokens(last'.reason) # {})]_vars

\* The last token of an entry was consumed: the entry is at stack 0 and
\* expired, and hasEffectToken and a further consumption will find nothing.
C24_Witness ==
    /\ last.op = "consumeEffectToken"
    /\ last.ret = TRUE
    /\ \E i \in 1..Len(effects) :
            /\ effects[i].type = last.reason
            /\ effects[i].stack = 0
            /\ effects[i].expiresAt = now
    /\ \E i \in 1..Len(effects) :
            effects[i].type # last.reason /\ effects[i].stack = kMaxEffectStack

-----------------------------------------------------------------------------
(* Specification SpecCycle: progress and failures of the tasks *)

MaxCycleCompletions == 2   \* task completions counted by the session
CycleGoal == 2             \* progress goal of the tasks
SemesterDeadline == 0      \* deadline of the semester task, in minutes

Deltas == {-1, 1}

\* One task of each type at the given progress; the daily and the semester
\* task hold a forgiveness coupon.
RowsAt(progress) ==
    [i \in 1..4 |->
        TaskToRecord(
            [Task(i, << "Daily", "Weekly", "Semester", "Custom" >>[i],
                  1, 50, 0, 0) EXCEPT
                !.progressGoal = CycleGoal,
                !.progressValue = progress,
                !.forgivenessCoupons = IF i \in {1, 3} THEN 1 ELSE 0,
                !.deadline = SemesterDeadline])]

\* The daily and the weekly task, not begun.
CycleRows == SubSeq(RowsAt(0), 1, 2)

\* The preset account is logged in and the constructor of TaskManager has
\* loaded the rows into the cache.
InitRows(rows) ==
    /\ db = OpenDatabase(Tables(UserRow(0), rows, <<>>, <<>>, <<>>))
    /\ activeUser = << hydrateUser(UserRow(0)) >>
    /\ tasks = [i \in 1..Len(rows) |-> hydrateTask(rows[i])]
    /\ completionStats =
           [Daily |-> 0, Weekly |-> 0, Semester |-> 0, Custom |-> 0]
    /\ achievements = <<>>
    /\ hung = FALSE
    /\ effects = <<>>
    /\ now = 0
    /\ last = NoCall

InitCycle == InitRows(CycleRows)

\* The completion request of the task view, without a storage fault.
CompleteCycleTask ==
    \E taskId \in DOMAIN tasks :
      \E m \in {markTaskCompleted(Machine(0, FALSE), taskId)} :
        /\ Ready
        /\ achievements # <<>>
        /\ activeUser[1].progress.totalTasksCompleted < MaxCycleCompletions
        /\ Ran("markTaskCompleted", [m EXCEPT !.stmts = <<>>], taskId, 0)

\* Without a storage fault; the slot of coinsChanged locks the mutex again.
UpdateTaskProgress ==
    \E taskId \in 1..(Len(tasks) + 1), delta \in Deltas,
       relock \in RelockOutcomes :
      \E m \in {updateTaskProgress(
                    MachineWith(0, FALSE, "ascending", relock),
                    taskId, delta)} :
        /\ Ready
        /\ achievements # <<>>
        /\ activeUser[1].progress.totalTasksCompleted < MaxCycleCompletions
        /\ Ran("updateTaskProgress", [m EXCEPT !.stmts = <<>>], taskId, delta)

\* The observation holds useForgiveness as 1 or 0.
FailTask ==
    \E taskId \in 1..(Len(tasks) + 1), useForgiveness \in BOOLEAN,
       fail \in BOOLEAN :
      \E m \in {failTask(Machine(FirstCall(fail), FALSE), taskId,
                         useForgiveness)} :
        /\ Ready
        /\ achievements # <<>>
        /\ Ran("failTask", [m EXCEPT !.stmts = <<>>], taskId,
               IF useForgiveness THEN 1 ELSE 0)

NextCycle ==
    \/ LoadAchievements
    \/ CompleteCycleTask
    \/ UpdateTaskProgress
    \/ FailTask

SpecCycle == InitCycle /\ [][NextCycle]_vars

\* The progress value updateTaskProgress computes for the task.
C26_NewValue(taskId, delta) ==
    Clamp(tasks[taskId].progressValue + delta, 0, tasks[taskId].progressGoal)

\* The call of the step is an updateTaskProgress on a cached task that
\* returned normally.
C26_Updated ==
    /\ last'.op = "updateTaskProgress"
    /\ last'.outcome = "ok"
    /\ last'.id \in DOMAIN tasks

\* The state the step leaves is the one markTaskCompleted leaves.
C26_AsMarkTaskCompleted(taskId) ==
    \E m \in {markTaskCompleted(Machine(0, FALSE), taskId)} :
        /\ tasks' = m.tasks
        /\ activeUser' = m.user
        /\ completionStats' = m.stats
        /\ achievements' = m.achs
        /\ db' = m.db

\* The effects of a completion on the task and on the ledger.
C26_Completion(taskId) ==
    /\ tasks' = [tasks EXCEPT ![taskId].completed = TRUE,
                              ![taskId].bonusStreak = @ + 1,
                              ![taskId].progressValue =
                                    tasks[taskId].progressGoal]
    /\ db'.cur.tasks[taskId] = TaskToRecord(tasks'[taskId])
    /\ activeUser'[1].coins = activeUser[1].coins
            + FinalReward(tasks[taskId].coinReward, tasks[taskId])
    /\ activeUser'[1].progress.totalTasksCompleted
            = activeUser[1].progress.totalTasksCompleted + 1
    /\ completionStats' =
            [completionStats EXCEPT ![tasks[taskId].type] = @ + 1]
    /\ db'.depth = db.depth

\* Only the progress value of the task changed, in the cache and in its row.
C26_ProgressOnly(taskId, delta) ==
    /\ tasks' = [tasks EXCEPT
                    ![taskId].progressValue = C26_NewValue(taskId, delta)]
    /\ db'.cur.tasks = [db.cur.tasks EXCEPT
                            ![taskId] = TaskToRecord(tasks'[taskId])]
    /\ db'.cur.user = db.cur.user
    /\ activeUser' = activeUser
    /\ completionStats' = completionStats
    /\ achievements' = achievements

\* C26: updateTaskProgress(id, delta) sets the progress to
\* clamp(progress + delta, 0, goal); if that reaches the goal the call
\* leaves what markTaskCompleted(id) leaves (the same ledger reward,
\* completed, streak + 1, progress = goal), otherwise only the progress
\* value changes and the ledger is untouched.
C26_ProgressReachesCompletion ==
    [][C26_Updated =>
        IF C26_NewValue(last'.id, last'.qty) >= tasks[last'.id].progressGoal
        THEN /\ C26_AsMarkTaskCompleted(last'.id)
             /\ tasks'[last'.id].completed
             /\ tasks'[last'.id].progressValue = tasks[last'.id].progressGoal
        ELSE C26_ProgressOnly(last'.id, last'.qty)]_vars

\* What the handler does: a progress that reaches the goal rewards the task
\* as applyRewardsLocked does, whether or not the task was completed before,
\* and the result is that of markTaskCompleted when it was not; a progress
\* below the goal changes the progress value only.
C26_ProgressRewardsAgain ==
    [][C26_Updated =>
        IF C26_NewValue(last'.id, last'.qty) >= tasks[last'.id].progressGoal
        THEN /\ C26_Completion(last'.id)
             /\ ~tasks[last'.id].completed =>
                    C26_AsMarkTaskCompleted(last'.id)
        ELSE C26_ProgressOnly(last'.id, last'.qty)]_vars

\* A completed task was rewarded a second time by a progress update.
C26_RewardedTwice ==
    /\ last.op = "updateTaskProgress"
    /\ last.outcome = "ok"
    /\ last.id \in DOMAIN tasks
    /\ tasks[last.id].completed
    /\ tasks[last.id].bonusStreak = 2
    /\ activeUser[1].progress.totalTasksCompleted = 2

\* The call of the step is a failTask on a cached task.
C27_Failed ==
    /\ last'.op = "failTask"
    /\ last'.id \in DOMAIN tasks

\* C27: failTask(id, true) on a task that holds a forgiveness coupon lowers
\* the coupon count by one and leaves the streak, the progress and the
\* completed flag as they were; every other failTask sets the streak and the
\* progress to 0 and leaves the coupon count as it was. No other task
\* changes, the ledger is untouched, and a call that returns normally has
\* written the task to its row.
C27_FailTaskEffect ==
    [][C27_Failed =>
        /\ IF last'.qty = 1 /\ tasks[last'.id].forgivenessCoupons > 0
           THEN tasks' = [tasks EXCEPT ![last'.id].forgivenessCoupons = @ - 1]
           ELSE /\ tasks'[last'.id].bonusStreak = 0
                /\ tasks'[last'.id].progressValue = 0
                /\ tasks'[last'.id].forgivenessCoupons
                        = tasks[last'.id].forgivenessCoupons
                /\ \A other \in DOMAIN tasks \ {last'.id} :
                        tasks'[other] = tasks[other]
        /\ activeUser' = activeUser
        /\ db'.cur.user = db.cur.user
        /\ last'.outcome = "ok" =>
                db'.cur.tasks = [db.cur.tasks EXCEPT
                                    ![last'.id] = TaskToRecord(tasks'[last'.id])]]_vars

\* A failure was forgiven on a completed task on a streak: the last coupon
\* is spent, the streak, the progress and the completed flag are kept.
C27_Witness ==
    /\ last.op = "failTask"
    /\ last.outcome = "ok"
    /\ last.qty = 1
    /\ last.id \in DOMAIN tasks
    /\ tasks[last.id].forgivenessCoupons = 0
    /\ tasks[last.id].completed
    /\ tasks[last.id].bonusStreak > 0
    /\ tasks[last.id].progressValue = tasks[last.id].progressGoal
    /\ db.cur.tasks[last.id].forgivenessCoupons = 0

-----------------------------------------------------------------------------
(* Specification SpecReset: the periodic resets of the tasks *)

\* The four tasks, each one step into its progress.
ResetRows == RowsAt(1)

InitReset == InitRows(ResetRows)

\* The tasks of the cache that the handler changed.
Touched(m) == {i \in DOMAIN tasks : m.tasks[i] # tasks[i]}

\* The timer of the daily reset fired; the observation holds the number of
\* tasks that changed.
ResetDaily ==
    \E order \in Orders, fail \in BOOLEAN :
      \E m \in {resetDailyTasks(
                    MachineWith(FirstCall(fail), FALSE, order, "proceed"))} :
        /\ Ready
        /\ Ran("resetDailyTasks", [m EXCEPT !.stmts = <<>>], 0,
               Cardinality(Touched(m)))

ResetWeekly ==
    \E order \in Orders, fail \in BOOLEAN :
      \E m \in {resetWeeklyTasks(
                    MachineWith(FirstCall(fail), FALSE, order, "proceed"))} :
        /\ Ready
        /\ Ran("resetWeeklyTasks", [m EXCEPT !.stmts = <<>>], 0,
               Cardinality(Touched(m)))

NextReset ==
    \/ LoadAchievements
    \/ CompleteCycleTask
    \/ ResetDaily
    \/ ResetWeekly
    \/ Advance

SpecReset == InitReset /\ [][NextReset]_vars

\* C28: the Daily reset takes effect once per calendar day: a resetDailyTasks
\* that follows a resetDailyTasks of the same day, both returning normally,
\* leaves every task as the first one left it.
C28_DailyResetOncePerDay ==
    [][(/\ last.op = "resetDailyTasks"
        /\ last.outcome = "ok"
        /\ last'.op = "resetDailyTasks"
        /\ last'.outcome = "ok")
        => tasks' = tasks]_vars

\* What the handler keeps: the second reset of the day changes at most the
\* streak, of Daily tasks only, and only to 0.
C28_SecondResetClearsStreak ==
    [][(/\ last.op = "resetDailyTasks"
        /\ last.outcome = "ok"
        /\ last'.op = "resetDailyTasks"
        /\ last'.outcome = "ok")
        => \A i \in DOMAIN tasks :
              \/ tasks'[i] = tasks[i]
              \/ /\ tasks[i].type = "Daily"
                 /\ tasks'[i] = [tasks[i] EXCEPT !.bonusStreak = 0]]_vars

\* The second reset of the day has taken the streak of a Daily task that the
\* ledger was paid for.
C28_StreakLost ==
    /\ last.op = "resetDailyTasks"
    /\ last.outcome = "ok"
    /\ last.qty = 1
    /\ tasks[1].bonusStreak = 0
    /\ ~tasks[1].completed
    /\ completionStats.Daily = 1

\* The Semester task is not completed and its deadline has passed.
C29_Overdue(task) ==
    task.type = "Semester" /\ ~task.completed /\ now > task.deadline

\* What a reset of the given type makes of a task.
C29_ResetOf(task, type) ==
    IF task.type = type
    THEN [task EXCEPT !.completed = FALSE, !.progressValue = 0,
                      !.bonusStreak = IF task.completed THEN @ ELSE 0]
    ELSE IF C29_Overdue(task)
    THEN [task EXCEPT !.bonusStreak = 0, !.progressValue = 0,
                      !.completed = FALSE]
    ELSE task

\* The reset of the step left the cache and the rows as a reset of the type
\* does, and the ledger as it was.
C29_Frame(type) ==
    /\ tasks' = [i \in DOMAIN tasks |-> C29_ResetOf(tasks[i], type)]
    /\ \A i \in DOMAIN tasks :
          db'.cur.tasks[i] =
              IF tasks[i].type = type \/ C29_Overdue(tasks[i])
              THEN TaskToRecord(tasks'[i]) ELSE db.cur.tasks[i]
    /\ activeUser' = activeUser
    /\ db'.cur.user = db.cur.user
    /\ completionStats' = completionStats

\* C29: resetDailyTasks changes only the Daily tasks (progress 0, completed
\* false) and the Semester tasks that are not completed and whose deadline
\* has passed (streak 0, progress 0, coupons as they were); Weekly tasks,
\* Custom tasks and Semester tasks that are completed or not overdue are
\* unchanged. resetWeeklyTasks does the same with Weekly in place of Daily
\* on the first day of the week and changes nothing on any other day.
C29_ResetFrame ==
    [][/\ (last'.op = "resetDailyTasks" /\ last'.outcome = "ok")
            => C29_Frame("Daily")
       /\ (last'.op = "resetWeeklyTasks" /\ last'.outcome = "ok")
            => IF dayOfWeek(now) = 1
               THEN C29_Frame("Weekly")
               ELSE /\ tasks' = tasks
                    /\ db' = db
                    /\ activeUser' = activeUser
                    /\ completionStats' = completionStats
       /\ last'.op = "resetWeeklyTasks" /\ dayOfWeek(now) # 1
            => last'.outcome = "ok"]_vars

\* A weekly reset on a Monday after the deadline changed the Weekly task
\* and the overdue Semester task and left the Daily and the Custom task in
\* progress.
C29_Witness ==
    /\ last.op = "resetWeeklyTasks"
    /\ last.outcome = "ok"
    /\ last.qty = 2
    /\ dayOfWeek(now) = 1
    /\ now > SemesterDeadline
    /\ tasks[2].progressValue = 0
    /\ tasks[3].progressValue = 0
    /\ tasks[3].forgivenessCoupons = 1
    /\ tasks[1].progressValue = 1
    /\ tasks[4].completed

\* The step is a completion that the ledger counted: markTaskCompleted, or
\* updateTaskProgress reaching the goal, returned normally.
C30_Completed ==
    /\ last'.op \in {"markTaskCompleted", "updateTaskProgress"}
    /\ last'.outcome = "ok"
    /\ last'.id \in DOMAIN tasks
    /\ activeUser'[1].progress.totalTasksCompleted
            = activeUser[1].progress.totalTasksCompleted + 1

\* The condition counts completions of tasks of the type.
C30_Matches(condition, type) ==
    \/ condition.type = "CompleteAnyTask"
    \/ condition.type = "CompleteTaskType" /\ condition.metadata = type

\* C30: every successful task completion, by markTaskCompleted or by
\* updateTaskProgress reaching the goal, delivers taskCompleted(id, type,
\* difficulty): the matching task-completed conditions of the cached
\* achievements that are below their target advance.
C30_CompletionDeliversEvent ==
    [][C30_Completed =>
        \A id \in DOMAIN achievements :
          \A k \in 1..Len(achievements[id].conditions) :
            (/\ C30_Matches(achievements[id].conditions[k],
                            tasks[last'.id].type)
             /\ achievements[id].conditions[k].currentValue
                    < achievements[id].conditions[k].targetValue)
            => achievements'[id].conditions[k].currentValue
                    > achievements[id].conditions[k].currentValue]_vars

\* What the handlers do: no step of a task handler changes a task-completed
\* condition of an achievement.
C30_NoEventDelivered ==
    [][\A id \in DOMAIN achievements :
          \A k \in 1..Len(achievements[id].conditions) :
            achievements[id].conditions[k].type
                    \in {"CompleteAnyTask", "CompleteTaskType"}
            => achievements'[id].conditions[k].currentValue
                    = achievements[id].conditions[k].currentValue]_vars

\* Two completions were counted by the ledger and the achievement that
\* counts completed tasks is still at 0.
C30_CompletedUncounted ==
    /\ last.op \in {"markTaskCompleted", "updateTaskProgress"}
    /\ last.outcome = "ok"
    /\ activeUser[1].progress.totalTasksCompleted = 2
    /\ \E id \in DOMAIN achievements :
        \E k \in 1..Len(achievements[id].conditions) :
            /\ achievements[id].conditions[k].type = "CompleteAnyTask"
            /\ achievements[id].conditions[k].currentValue = 0

-----------------------------------------------------------------------------
(* Claims about the events of the ledger *)

\* The signals that the change of the ledger in the step calls for.
C31_Due ==
    IF activeUser = <<>> \/ activeUser' = <<>> THEN {}
    ELSE (IF activeUser'[1].coins # activeUser[1].coins
          THEN {"coinsChanged"} ELSE {})
         \cup (IF activeUser'[1].level # activeUser[1].level
               THEN {"levelChanged"} ELSE {})
         \cup (IF activeUser'[1].attributes.pride # activeUser[1].attributes.pride
               THEN {"prideChanged"} ELSE {})

\* The signals emitted during the call of the step.
C31_Emitted == {last'.signals[i] : i \in 1..Len(last'.signals)}

\* C31: every operation that changes the coin balance, the level or the
\* pride of the ledger delivers the corresponding coinsChanged, levelChanged
\* or prideChanged event: here for a purchase that succeeds.
C31_LedgerChangeDeliversEvent ==
    [][(last'.op = "purchaseItem" /\ last'.outcome = "success")
        => C31_Due \subseteq C31_Emitted]_vars

\* What purchaseItem does: it emits no signal at all.
C31_PurchaseEmitsNothing ==
    [][last'.op = "purchaseItem" => last'.signals = <<>>]_vars

\* The same statement for the task handlers, where it holds: a completion
\* that returns normally has emitted the signal of every change it made.
C31_CompletionDeliversEvents ==
    [][(/\ last'.op \in {"markTaskCompleted", "updateTaskProgress"}
        /\ last'.outcome = "ok")
        => C31_Due \subseteq C31_Emitted]_vars

\* A purchase was paid and no coinsChanged was emitted.
C31_PaidSilently ==
    /\ last.op = "purchaseItem"
    /\ last.outcome = "success"
    /\ last.signals = <<>>
    /\ activeUser # <<>>
    /\ activeUser[1].coins < StartCoins

-----------------------------------------------------------------------------
(* Claims about the locks of the components *)

\* C32: no call chain acquires a non-reentrant lock of a component that it
\* already holds: purchaseItem and useInventoryItem, which look up the item
\* of the catalog while they hold the lock of the shop, always run to
\* completion and never block for ever.
C32_NoSelfDeadlock ==
    [][last'.op \in {"purchaseItem", "useInventoryItem"}
        => (last'.outcome # "blocked" /\ ~hung')]_vars

\* What holds instead: a purchase blocks only in the lookup of the item,
\* before any check of the purchase and before any statement.
C32_BlocksInLookupOnly ==
    [][(last'.op = "purchaseItem" /\ last'.outcome = "blocked")
        => (/\ activeUser # <<>>
            /\ last'.stmts = <<>>
            /\ db' = db
            /\ activeUser' = activeUser)]_vars

\* The thread of a purchase is stopped inside findItem, holding the lock of
\* the shop.
C32_Deadlocked ==
    /\ hung
    /\ last.op = "purchaseItem"
    /\ last.outcome = "blocked"

-----------------------------------------------------------------------------
(* Specification SpecGoal: a custom goal whose target is edited *)

MaxTarget == 3       \* the largest target an edit gives to a condition

GoalDeltas == {-1, 1, 2}

\* The object the customisation panel builds: one counter, nothing counted.
GoalDraft ==
    [Achievement EXCEPT
        !.name = "Goal", !.rewardType = "NoReward",
        !.conditions = << Condition("CustomCounter", MaxTarget, 0, "") >>]

\* The copy achievementById returns, with a new target in every condition.
Retargeted(achievement, target) ==
    [achievement EXCEPT !.conditions =
        [i \in 1..Len(@) |-> [@[i] EXCEPT !.targetValue = target]]]

CreateGoal ==
    \E fail \in BOOLEAN :
      \E m \in {createCustomAchievement(Machine(FirstCall(fail), FALSE), GoalDraft)} :
        /\ Ready
        /\ achievements # <<>>
        /\ \A id \in DOMAIN achievements : achievements[id].name # GoalDraft.name
        /\ Ran("createCustomAchievement", [m EXCEPT !.stmts = <<>>], 0, 0)

RecordGoalProgress ==
    \E id \in DOMAIN achievements, delta \in GoalDeltas, fail \in BOOLEAN :
      \E m \in {recordCustomProgress(Machine(FirstCall(fail), FALSE), id, delta)} :
        /\ Ready
        /\ achievements[id].type = "Custom"
        /\ Ran("recordCustomProgress", [m EXCEPT !.stmts = <<>>], id, delta)

RetargetGoal ==
    \E id \in DOMAIN achievements, target \in 1..MaxTarget, fail \in BOOLEAN :
      \E m \in {updateCustomAchievement(Machine(FirstCall(fail), FALSE),
                                        Retargeted(achievements[id], target))} :
        /\ Ready
        /\ achievements[id].type = "Custom"
        /\ Ran("updateCustomAchievement", [m EXCEPT !.stmts = <<>>], id, target)

ReloadGoals ==
    \E m \in {refreshFromDatabase(Machine(0, FALSE))} :
        /\ Ready
        /\ achievements # <<>>
        /\ Ran("refreshFromDatabase", [m EXCEPT !.stmts = <<>>], 0, 1)

NextGoal ==
    \/ LoadAchievements
    \/ CreateGoal
    \/ RecordGoalProgress
    \/ RetargetGoal
    \/ ReloadGoals

SpecGoal == InitAch /\ [][NextGoal]_vars

InRange(condition) ==
    /\ 0 <= condition.currentValue
    /\ condition.currentValue <= condition.targetValue

\* C33: every condition of every cached achievement has
\* 0 <= currentValue <= targetValue, whichever way the value was written:
\* an event, a replaced ledger value, the creation or the edit of a custom
\* achievement, a load from the store.
C33_ConditionsInRange ==
    \A id \in DOMAIN achievements :
        \A i \in 1..Len(achievements[id].conditions) :
            InRange(achievements[id].conditions[i])

\* What holds instead: a progress event leaves every condition it finds in
\* range in range.
C33_EventsKeepRange ==
    [][(last'.op = "recordCustomProgress" /\ C33_ConditionsInRange)
        => C33_ConditionsInRange']_vars

\* An edit has lowered the target of a goal below what was counted.
C33_CountedAboveTarget ==
    /\ last.op = "updateCustomAchievement"
    /\ last.outcome = "ok"
    /\ \E id \in DOMAIN achievements :
        \E i \in 1..Len(achievements[id].conditions) :
            achievements[id].conditions[i].currentValue
                > achievements[id].conditions[i].targetValue

-----------------------------------------------------------------------------
(* Claims about the task cache and its rows *)

\* C34: after every operation of TaskManager, whether it returns normally
\* or throws a persistence error, the task cache and the task rows hold the
\* same tasks with the same field values.
C34_CacheMirrorsRows ==
    ~hung =>
        /\ DOMAIN tasks = 1..Len(db.cur.tasks)
        /\ \A id \in DOMAIN tasks : TaskToRecord(tasks[id]) = db.cur.tasks[id]

\* What holds instead: a failTask call that returns normally leaves the
\* failed task equal to its row.
C34_FailTaskMirrorsOnReturn ==
    [][(C27_Failed /\ last'.outcome = "ok")
        => TaskToRecord(tasks'[last'.id]) = db'.cur.tasks[last'.id]]_vars

\* failTask has thrown and the cache holds a failure the row does not.
C34_FailureOnlyInCache ==
    /\ last.op = "failTask"
    /\ last.outcome = "throw"
    /\ last.id \in DOMAIN tasks
    /\ TaskToRecord(tasks[last.id]) # db.cur.tasks[last.id]

-----------------------------------------------------------------------------
(* Claims about rewards granted once *)

\* C35: over any sequence of events and operations the reward of each
\* achievement (coins, attribute bonus, count of unlocks) is applied to the
\* ledger at most once, also when the grant re-enters the change handlers
\* and when the achievement is edited afterwards.
C35_RewardedAtMostOnce == last.again = {}

\* What holds instead: within one call, cascade included, no achievement is
\* rewarded twice.
C35_OncePerCall ==
    [][\A i, j \in 1..Len(last'.grants) :
            last'.grants[i].id = last'.grants[j].id => i = j]_vars

\* An achievement rewarded before is rewarded again by a progress event.
C35_RewardedTwice ==
    /\ last.op = "recordCustomProgress"
    /\ last.again # {}
    /\ Len(last.grants) > 0

\* The call of the step is a markTaskCompleted or an updateTaskProgress on
\* a cached task that is completed.
C36_OnCompletedTask ==
    /\ last'.op \in {"markTaskCompleted", "updateTaskProgress"}
    /\ last'.id \in DOMAIN tasks
    /\ tasks[last'.id].completed

\* C36: between two resets the reward of a task is granted at most once:
\* while the task is completed, no markTaskCompleted and no
\* updateTaskProgress, whatever its delta, applies the ledger reward again
\* or raises the streak of the task or a completion counter.
C36_CompletedTaskNotRewarded ==
    [][C36_OnCompletedTask =>
        /\ activeUser'[1].coins = activeUser[1].coins
        /\ activeUser'[1].growthPoints = activeUser[1].growthPoints
        /\ activeUser'[1].progress.totalTasksCompleted
                = activeUser[1].progress.totalTasksCompleted
        /\ tasks'[last'.id].bonusStreak <= tasks[last'.id].bonusStreak
        /\ completionStats' = completionStats]_vars

\* What holds instead: markTaskCompleted on a completed task changes
\* nothing.
C36_SecondCompletionIsNoOp ==
    [][(C36_OnCompletedTask /\ last'.op = "markTaskCompleted")
        => (/\ activeUser' = activeUser
            /\ tasks' = tasks
            /\ completionStats' = completionStats
            /\ db' = db)]_vars

\* A progress update on a completed task has paid its reward again.
C36_PaidAgain ==
    /\ last.op = "updateTaskProgress"
    /\ last.id \in DOMAIN tasks
    /\ tasks[last.id].completed
    /\ tasks[last.id].bonusStreak = 2
    /\ completionStats[tasks[last.id].type] = 2

-----------------------------------------------------------------------------
(* Claims about the use of an entry that was used *)

\* The call of the step is a useInventoryItem on an entry whose status is
\* Consumed or Expired.
C37_OnUsedEntry ==
    /\ last'.op = "useInventoryItem"
    /\ last'.id \in 1..Len(db.cur.inv)
    /\ db.cur.inv[last'.id].status \in {"Consumed", "Expired"}

\* C37: an entry of the inventory is usable at most once: useInventoryItem
\* on an entry that is Consumed or Expired draws no lucky bag, changes
\* neither the ledger nor any stack of effects, and creates no entry.
C37_UsedEntryIsInert ==
    [][C37_OnUsedEntry =>
        /\ activeUser' = activeUser
        /\ db'.cur.user = db.cur.user
        /\ effects' = effects
        /\ Len(db'.cur.inv) = Len(db.cur.inv)]_vars

\* What holds instead: the use of an entry whose expiration time has passed
\* changes neither the ledger nor the effects.
C37_ExpiredEntryIsInert ==
    [][(/\ last'.op = "useInventoryItem"
        /\ last'.id \in 1..Len(db.cur.inv)
        /\ db.cur.inv[last'.id].expirationTime # <<>>
        /\ now > db.cur.inv[last'.id].expirationTime[1])
        => (activeUser' = activeUser /\ effects' = effects)]_vars

\* A lucky bag that was opened before has paid coins again.
C37_BagOpenedTwice ==
    /\ last.op = "useInventoryItem"
    /\ last.outcome = "ok"
    /\ last.id \in 1..Len(db.cur.inv)
    /\ db.cur.inv[last.id].itemId = 3
    /\ db.cur.inv[last.id].status = "Consumed"
    /\ activeUser[1].coins >= 20

-----------------------------------------------------------------------------
(* Claims about transactions left open *)

\* C38: after every public operation has returned or thrown, also when the
\* physical BEGIN or COMMIT failed, no transaction is left open: the depth
\* is 0, the transaction lock is released (it is held iff the depth is at
\* least 1), and the next beginTransaction returns true.
C38_NoTransactionLeftOpen ==
    ~hung =>
        /\ db.depth = 0
        /\ db.locked <=> db.depth >= 1
        /\ beginTransaction(Machine(0, FALSE)).ret

\* What holds instead: a purchase entered with no transaction open leaves
\* none open unless its BEGIN or its ROLLBACK failed; a failing COMMIT is
\* rolled back.
C38_OpenOnlyAfterFailedBeginOrRollback ==
    [][(/\ last'.op = "purchaseItem"
        /\ ~hung'
        /\ db.depth = 0 /\ ~db.locked
        /\ Issued(last'.stmts, "BEGIN") = Performed(last'.stmts, "BEGIN")
        /\ Issued(last'.stmts, "ROLLBACK")
                = Performed(last'.stmts, "ROLLBACK"))
        => (db'.depth = 0 /\ ~db'.locked)]_vars

\* A purchase whose BEGIN failed has thrown and left the lock owned at
\* depth 0.
C38_LockLeaked ==
    /\ last.op = "purchaseItem"
    /\ last.outcome = "throw"
    /\ Issued(last.stmts, "BEGIN") # Performed(last.stmts, "BEGIN")
    /\ db.locked
    /\ db.depth = 0

-----------------------------------------------------------------------------
(* Specification SpecCap: the reward of custom achievements is edited *)

MaxCapped == 3    \* custom achievements created

CapNames == <<"First", "Second", "Third">>

RewardTypes == {"NoReward", "WithReward"}

\* The form of the customisation panel: a counter of target 1, with or
\* without a reward of 50 coins.
CapDraft(name, rewardType) ==
    [Achievement EXCEPT
        !.name = name, !.rewardType = rewardType,
        !.conditions = << Condition("CustomCounter", 1, 0, "") >>,
        !.rewardCoins = IF rewardType = "WithReward" THEN 50 ELSE 0]

\* The copy achievementById returns, with the reward of the form.
Rerewarded(achievement, rewardType) ==
    [achievement EXCEPT
        !.rewardType = rewardType,
        !.rewardCoins = IF rewardType = "WithReward" THEN 50 ELSE 0]

CreateCapped ==
    \E n \in 1..Len(CapNames), rewardType \in RewardTypes, fail \in BOOLEAN :
      \E m \in {createCustomAchievement(Machine(FirstCall(fail), FALSE),
                                        CapDraft(CapNames[n], rewardType))} :
        /\ Ready
        /\ achievements # <<>>
        /\ Len(db.cur.achs) < Len(buildSystemTemplates) + MaxCapped
        /\ \A i \in 1..Len(db.cur.achs) : db.cur.achs[i].name # CapNames[n]
        /\ Ran("createCustomAchievement", [m EXCEPT !.stmts = <<>>], 0, n)

EditReward ==
    \E id \in DOMAIN achievements, rewardType \in RewardTypes,
       fail \in BOOLEAN :
      \E m \in {updateCustomAchievement(Machine(FirstCall(fail), FALSE),
                    Rerewarded(achievements[id], rewardType))} :
        /\ Ready
        /\ achievements[id].type = "Custom"
        /\ Ran("updateCustomAchievement", [m EXCEPT !.stmts = <<>>], id, 0)

NextCap ==
    \/ LoadAchievements
    \/ CreateCapped
    \/ EditReward
    \/ DeleteCustomAchievement

SpecCap == InitAch /\ [][NextCap]_vars

\* The rewarded custom achievements of the owner that were created in the
\* current calendar month.
C39_Held ==
    {i \in 1..Len(db.cur.achs) :
        /\ db.cur.achs[i].type = "Custom"
        /\ db.cur.achs[i].rewardType = "WithReward"
        /\ db.cur.achs[i].createdAt = Machine(0, FALSE).localMonth}

\* C39: the monthly cap cannot be bypassed by editing: after any sequence of
\* createCustomAchievement, updateCustomAchievement and
\* deleteCustomAchievement calls the owner holds at most 2 rewarded custom
\* achievements created in the current calendar month.
C39_CapHolds == Cardinality(C39_Held) <= 2

\* What holds instead: no creation and no deletion takes the owner above
\* the cap.
C39_CreationKeepsCap ==
    [][(/\ last'.op \in {"createCustomAchievement", "deleteCustomAchievement"}
        /\ C39_CapHolds) => C39_CapHolds']_vars

\* An edit has given a reward to a third custom achievement of the month.
C39_ThirdRewardByEdit ==
    /\ last.op = "updateCustomAchievement"
    /\ last.outcome = "ok"
    /\ Cardinality(C39_Held) = 3

-----------------------------------------------------------------------------
(* Claims about rewards of probability 0 *)

\* C40: in a draw over a list in which at least one reward has a positive
\* probability, a reward of probability 0 is never the one returned, for any
\* random value in [0,1), 0 included.
C40_ZeroProbabilityNeverDrawn ==
    (/\ last.op = "rollLuckyBag"
     /\ \E i \in 1..Len(db.cur.items[1].luckyRewards) :
            db.cur.items[1].luckyRewards[i].probability > 0) =>
        last.ret.probability # 0

\* What holds instead: with a positive total, a reward of probability 0 is
\* returned only as the last of the list, and only when the loop selected
\* nothing of positive probability.
C40_ZeroOnlyAsLast ==
    (/\ last.op = "rollLuckyBag"
     /\ db.cur.items[1].luckyRewards # <<>>
     /\ SumProbability(db.cur.items[1].luckyRewards) > 0
     /\ last.ret.probability = 0) =>
        /\ last.ret = db.cur.items[1].luckyRewards[
                            Len(db.cur.items[1].luckyRewards)]
        /\ SelectReward(db.cur.items[1].luckyRewards, last.qty,
                        SumProbability(db.cur.items[1].luckyRewards),
                        TRUE, 0).probability <= 0

\* The random value 0 on the probabilities 0, 1/4, 0: the third reward is
\* returned.
C40_ZeroDrawn ==
    /\ last.op = "rollLuckyBag"
    /\ last.qty = 0
    /\ Len(db.cur.items[1].luckyRewards) = 3
    /\ db.cur.items[1].luckyRewards[1].probability = 0
    /\ db.cur.items[1].luckyRewards[2].probability = 1
    /\ db.cur.items[1].luckyRewards[3].probability = 0
    /\ last.ret = db.cur.items[1].luckyRewards[3]

====
